---- MODULE Spec2Model ----
(***************************************************************************)
(* A model of grout, the convention-driven HTTP request router             *)
(* (src/src/grout.ts lines 1-357, src/src/reflection.ts) together with the *)
(* users fixture controller it is tested with.                             *)
(*                                                                         *)
(* JavaScript strings are TLA+ strings; a character is a string of length  *)
(* one.  JavaScript values are tagged records (see "Values").              *)
(***************************************************************************)
EXTENDS Integers, Sequences, FiniteSets, TLC

(***************************************************************************)
(* Strings                                                                 *)
(***************************************************************************)

\* s.charAt(i - 1): the i-th character, 1-based
CharAt(s, i) == SubSeq(s, i, i)

\* s.substring(i - 1): the suffix from the i-th character on
From(s, i) == SubSeq(s, i, Len(s))

\* s.startsWith(t)
StartsWith(s, t) == Len(t) <= Len(s) /\ SubSeq(s, 1, Len(t)) = t

\* s.endsWith(t)
EndsWith(s, t) == Len(t) <= Len(s) /\ SubSeq(s, Len(s) - Len(t) + 1, Len(s)) = t

\* the 1-based place of the first occurrence of t in s at or after place i, 0 if none
RECURSIVE IndexFrom(_, _, _)
IndexFrom(s, t, i) ==
  IF i + Len(t) - 1 > Len(s) THEN 0
  ELSE IF SubSeq(s, i, i + Len(t) - 1) = t THEN i
  ELSE IndexFrom(s, t, i + 1)

\* s.indexOf(t) + 1: the 1-based place of the first occurrence of t, 0 if none
IndexOf(s, t) == IndexFrom(s, t, 1)

\* s.replace(t, r) with a string pattern: only the first occurrence is replaced
ReplaceFirst(s, t, r) ==
  LET i == IndexOf(s, t)
  IN IF i = 0 THEN s ELSE SubSeq(s, 1, i - 1) \o r \o From(s, i + Len(t))

\* s.split(c) for a one-character separator c: always at least one piece
RECURSIVE Split(_, _)
Split(s, c) ==
  LET i == IndexOf(s, c)
  IN IF i = 0 THEN <<s>> ELSE <<SubSeq(s, 1, i - 1)>> \o Split(From(s, i + 1), c)

\* pieces.join(c)
RECURSIVE Join(_, _)
Join(pieces, c) ==
  IF Len(pieces) = 0 THEN ""
  ELSE IF Len(pieces) = 1 THEN pieces[1]
  ELSE pieces[1] \o c \o Join(Tail(pieces), c)

\* the number of occurrences of the character c in s: s.split(c).length - 1
CountChar(s, c) == Cardinality({i \in 1..Len(s) : CharAt(s, i) = c})

LowerLetters == <<"a","b","c","d","e","f","g","h","i","j","k","l","m",
                  "n","o","p","q","r","s","t","u","v","w","x","y","z">>
UpperLetters == <<"A","B","C","D","E","F","G","H","I","J","K","L","M",
                  "N","O","P","Q","R","S","T","U","V","W","X","Y","Z">>
Digits == <<"0","1","2","3","4","5","6","7","8","9">>

\* the 1-based place of the character c in the alphabet, 0 if it is not in it
Place(alphabet, c) ==
  IF \E i \in 1..Len(alphabet) : alphabet[i] = c
  THEN CHOOSE i \in 1..Len(alphabet) : alphabet[i] = c
  ELSE 0

IsUpper(c) == Place(UpperLetters, c) > 0
IsDigit(c) == Place(Digits, c) > 0

RECURSIVE ToUpperCase(_)
ToUpperCase(s) ==
  IF s = "" THEN ""
  ELSE LET c == CharAt(s, 1)
           p == Place(LowerLetters, c)
       IN (IF p > 0 THEN UpperLetters[p] ELSE c) \o ToUpperCase(From(s, 2))

\* value.replace(/([A-Z])/g, (match) => "-" + match.toLowerCase())
RECURSIVE kebabCase(_)
kebabCase(value) ==
  IF value = "" THEN ""
  ELSE LET c == CharAt(value, 1)
           p == Place(UpperLetters, c)
       IN (IF p > 0 THEN "-" \o LowerLetters[p] ELSE c) \o kebabCase(From(value, 2))

\* String.prototype.trim, for the blanks a parameter list holds
RECURSIVE TrimLeft(_)
TrimLeft(s) ==
  IF s # "" /\ CharAt(s, 1) \in {" ", "\n", "\t"} THEN TrimLeft(From(s, 2)) ELSE s

RECURSIVE TrimRight(_)
TrimRight(s) ==
  IF s # "" /\ CharAt(s, Len(s)) \in {" ", "\n", "\t"}
  THEN TrimRight(SubSeq(s, 1, Len(s) - 1)) ELSE s

Trim(s) == TrimRight(TrimLeft(s))

(***************************************************************************)
(* Values: a JavaScript value is a record tagged by t.                     *)
(***************************************************************************)

Undefined == [t |-> "undefined"]
Null == [t |-> "null"]
Str(s) == [t |-> "string", v |-> s]
Num(n) == [t |-> "number", v |-> n]
Bool(b) == [t |-> "boolean", v |-> b]
\* an array of values
Arr(items) == [t |-> "array", v |-> items]
\* a plain object: a function from its keys to values
Obj(fields) == [t |-> "object", v |-> fields]
\* an Error instance: new Deno.errors.<name>(message), or another Error class
Err(name, message) == [t |-> "error", name |-> name, message |-> message]

\* the typeof operator
TypeOf(v) ==
  CASE v.t = "undefined" -> "undefined"
    [] v.t = "string" -> "string"
    [] v.t = "number" -> "number"
    [] v.t = "boolean" -> "boolean"
    [] OTHER -> "object"

\* ToBoolean: what !v and v || w test
Truthy(v) ==
  CASE v.t = "undefined" -> FALSE
    [] v.t = "null" -> FALSE
    [] v.t = "string" -> v.v # ""
    [] v.t = "number" -> v.v # 0
    [] v.t = "boolean" -> v.v
    [] OTHER -> TRUE

\* a || b
OrElse(a, b) == IF Truthy(a) THEN a ELSE b

\* the decimal numeral of a natural number
RECURSIVE NatToString(_)
NatToString(n) ==
  IF n < 10 THEN Digits[n + 1] ELSE NatToString(n \div 10) \o Digits[(n % 10) + 1]

\* String(v), for the values a parameter bag holds
StringOf(v) ==
  CASE v.t = "string" -> v.v
    [] v.t = "number" -> IF v.v < 0 THEN "-" \o NatToString(-v.v) ELSE NatToString(v.v)
    [] v.t = "boolean" -> IF v.v THEN "true" ELSE "false"
    [] v.t = "undefined" -> "undefined"
    [] v.t = "null" -> "null"
    [] v.t = "Request" -> "[object Request]"
    [] OTHER -> "[object Object]"

\* the length of the longest prefix of s made of decimal digits
RECURSIVE DigitPrefix(_)
DigitPrefix(s) ==
  IF s # "" /\ IsDigit(CharAt(s, 1)) THEN 1 + DigitPrefix(From(s, 2)) ELSE 0

\* the value of a string of decimal digits
RECURSIVE DigitsValue(_)
DigitsValue(s) ==
  IF s = "" THEN 0
  ELSE 10 * DigitsValue(SubSeq(s, 1, Len(s) - 1)) + (Place(Digits, CharAt(s, Len(s))) - 1)

HexDigits == <<"0","1","2","3","4","5","6","7","8","9","a","b","c","d","e","f">>
HexPlace(c) ==
  IF Place(HexDigits, c) > 0 THEN Place(HexDigits, c)
  ELSE IF Place(UpperLetters, c) \in 1..6 THEN 10 + Place(UpperLetters, c)
  ELSE 0

RECURSIVE HexPrefix(_)
HexPrefix(s) ==
  IF s # "" /\ HexPlace(CharAt(s, 1)) > 0 THEN 1 + HexPrefix(From(s, 2)) ELSE 0

RECURSIVE HexValue(_)
HexValue(s) ==
  IF s = "" THEN 0
  ELSE 16 * HexValue(SubSeq(s, 1, Len(s) - 1)) + (HexPlace(CharAt(s, Len(s))) - 1)

\* parseInt(s) with no radix: leading blanks and a sign are skipped, a 0x prefix
\* selects base 16, the longest prefix of digits is read and what follows it is
\* ignored; NaN when there is no digit.
ParseInt(s) ==
  LET s1 == TrimLeft(s)
      neg == s1 # "" /\ CharAt(s1, 1) = "-"
      s2 == IF s1 # "" /\ CharAt(s1, 1) \in {"-", "+"} THEN From(s1, 2) ELSE s1
      hex == StartsWith(s2, "0x") \/ StartsWith(s2, "0X")
      s3 == IF hex THEN From(s2, 3) ELSE s2
      k == IF hex THEN HexPrefix(s3) ELSE DigitPrefix(s3)
      n == IF hex THEN HexValue(SubSeq(s3, 1, k)) ELSE DigitsValue(SubSeq(s3, 1, k))
  IN IF k = 0 THEN [nan |-> TRUE, n |-> 0]
     ELSE [nan |-> FALSE, n |-> IF neg THEN -n ELSE n]

\* whether s is a JSON integer literal: -?(0|[1-9][0-9]*)
IsJsonInt(s) ==
  LET d == IF StartsWith(s, "-") THEN From(s, 2) ELSE s
  IN /\ d # ""
     /\ DigitPrefix(d) = Len(d)
     /\ (Len(d) > 1 => CharAt(d, 1) # "0")

JsonInt(s) ==
  IF StartsWith(s, "-") THEN -DigitsValue(From(s, 2)) ELSE DigitsValue(s)

\* whether s is a JSON string literal without escapes
IsJsonString(s) ==
  /\ Len(s) >= 2
  /\ CharAt(s, 1) = "\"" /\ CharAt(s, Len(s)) = "\""
  /\ \A i \in 2..(Len(s) - 1) : CharAt(s, i) \notin {"\"", "\\"}

\* a JSON scalar
IsJsonScalar(s) == s \in {"true", "false", "null"} \/ IsJsonInt(s) \/ IsJsonString(s)

JsonScalar(s) ==
  CASE s = "true" -> Bool(TRUE)
    [] s = "false" -> Bool(FALSE)
    [] s = "null" -> Null
    [] IsJsonInt(s) -> Num(JsonInt(s))
    [] OTHER -> Str(SubSeq(s, 2, Len(s) - 1))

\* whether s is one member of a JSON object, "key":scalar
IsJsonMember(s) ==
  LET i == IndexOf(s, ":")
  IN i > 0 /\ IsJsonString(Trim(SubSeq(s, 1, i - 1))) /\ IsJsonScalar(Trim(From(s, i + 1)))

JsonMemberKey(s) == JsonScalar(Trim(SubSeq(s, 1, IndexOf(s, ":") - 1))).v
JsonMemberValue(s) == JsonScalar(Trim(From(s, IndexOf(s, ":") + 1)))

\* JSON.parse(text) on the fragment of JSON the model draws its texts from:
\* scalars (integers, strings without escapes, commas or colons; true, false,
\* null), arrays of scalars and objects of scalars with distinct keys; every
\* text the model uses outside the fragment is not JSON at all, and JSON.parse
\* throws SyntaxError on it (ok = FALSE).
JsonParse(text) ==
  LET s == Trim(text)
      inner == Trim(SubSeq(s, 2, Len(s) - 1))
      items == Split(inner, ",")
      bad == [ok |-> FALSE, v |-> Undefined]
  IN IF IsJsonScalar(s) THEN [ok |-> TRUE, v |-> JsonScalar(s)]
     ELSE IF Len(s) >= 2 /\ CharAt(s, 1) = "[" /\ CharAt(s, Len(s)) = "]"
       THEN IF inner = "" THEN [ok |-> TRUE, v |-> Arr(<<>>)]
            ELSE IF \A i \in 1..Len(items) : IsJsonScalar(Trim(items[i]))
              THEN [ok |-> TRUE,
                    v |-> Arr([i \in 1..Len(items) |-> JsonScalar(Trim(items[i]))])]
              ELSE bad
     ELSE IF Len(s) >= 2 /\ CharAt(s, 1) = "{" /\ CharAt(s, Len(s)) = "}"
       THEN IF inner = "" THEN [ok |-> TRUE, v |-> Obj(<<>>)]
            ELSE IF \A i \in 1..Len(items) : IsJsonMember(items[i])
              THEN [ok |-> TRUE,
                    v |-> Obj([k \in {JsonMemberKey(items[i]) : i \in 1..Len(items)} |->
                            JsonMemberValue(items[CHOOSE i \in 1..Len(items) :
                                                    JsonMemberKey(items[i]) = k])])]
              ELSE bad
     ELSE bad

(***************************************************************************)
(* Reflection: the parameter schema of a handler (src/src/reflection.ts).  *)
(*                                                                         *)
(* A function is a record: name (fn.name), src (fn.toString(), the         *)
(* transpiled JavaScript, its body elided), and decl, what the syntax tree *)
(* of the declaring file says of it: named (a function or method           *)
(* declaration with that name exists) and its parameters, each with its    *)
(* declared type text, optional mark and initializer text ("" for none).   *)
(***************************************************************************)

Param(name, type, optional, init) ==
  [name |-> name, type |-> type, optional |-> optional, init |-> init]

\* a schema property: { type, default? }; hasDefault tells whether the key
\* "default" is present (it may be present and undefined)
Property(name, type, hasDefault, default) ==
  [name |-> name, type |-> type, hasDefault |-> hasDefault, default |-> default]

\* properties[name] = property: a new key is appended, an old one keeps its place
PutProperty(props, prop) ==
  IF \E i \in 1..Len(props) : props[i].name = prop.name
  THEN [i \in 1..Len(props) |-> IF props[i].name = prop.name THEN prop ELSE props[i]]
  ELSE Append(props, prop)

\* Object.hasOwn(properties, name)
HasProperty(props, name) == \E i \in 1..Len(props) : props[i].name = name

\* source.replace(/(\/\*[\s\S]*?\*\/)|(\/\/(.)*)/g, ""): block comments that are
\* closed, and line comments up to the end of the line, are removed
RECURSIVE StripComments(_)
StripComments(source) ==
  IF source = "" THEN ""
  ELSE IF StartsWith(source, "/*") /\ IndexOf(From(source, 3), "*/") > 0
    THEN StripComments(From(source, 3 + IndexOf(From(source, 3), "*/") + 1))
  ELSE IF StartsWith(source, "//")
    THEN LET nl == IndexOf(source, "\n")
         IN IF nl = 0 THEN "" ELSE StripComments(From(source, nl))
  ELSE CharAt(source, 1) \o StripComments(From(source, 2))

\* the for loop of the balanced scan: the place of the parenthesis that closes
\* the one opened before place e, Len(source) + 1 if there is none
RECURSIVE ScanBalanced(_, _, _)
ScanBalanced(source, e, count) ==
  IF e > Len(source) THEN e
  ELSE LET char == CharAt(source, e)
           c == IF char = "(" THEN count + 1 ELSE IF char = ")" THEN count - 1 ELSE count
       IN IF c = 0 THEN e ELSE ScanBalanced(source, e + 1, c)

\* source.substring(s, e): the text between the first "(" and its closing ")"
ParameterList(fnSrc) ==
  LET source == StripComments(fnSrc)
      s == IndexOf(source, "(") + 1
      e == ScanBalanced(source, s, 1)
  IN SubSeq(source, s, e - 1)

\* the loop "for (const token of tokens)" of getParametersFromSource, from token
\* i on; ok = FALSE when JSON.parse throws on a default value
RECURSIVE SourceTokens(_, _, _)
SourceTokens(tokens, i, schema) ==
  IF i > Len(tokens) THEN [ok |-> TRUE, schema |-> schema]
  ELSE
    LET token == tokens[i]
        p == IndexOf(token, "=")
        potentialValue == Trim(From(token, p + 1))
        name == IF p = 0 THEN Trim(token) ELSE Trim(SubSeq(token, 1, p - 1))
        noValue == p = 0 \/ potentialValue = "undefined"
        parsed == JsonParse(potentialValue)
        value == IF noValue THEN Undefined ELSE parsed.v
        type == TypeOf(value)
        property == Property(name, IF type = "undefined" THEN "any" ELSE type, p # 0, value)
    IN IF ~noValue /\ ~parsed.ok THEN [ok |-> FALSE, schema |-> schema]
       ELSE IF name = "" THEN SourceTokens(tokens, i + 1, schema)
       ELSE SourceTokens(tokens, i + 1,
              [schema EXCEPT !.properties = PutProperty(@, property),
                             !.required = IF p = 0 THEN Append(@, name) ELSE @])

\* getParametersFromSource(fn): the textual strategy
getParametersFromSource(fn) ==
  SourceTokens(Split(ParameterList(fn.src), ","), 1,
               [id |-> fn.name, properties |-> <<>>, required |-> <<>>])

\* the loop "for (const p of parameters)" of getParametersFromAST
RECURSIVE ASTParameters(_, _, _)
ASTParameters(parameters, i, schema) ==
  IF i > Len(parameters) THEN [ok |-> TRUE, schema |-> schema]
  ELSE
    LET p == parameters[i]
        parsed == JsonParse(p.init)
        property == Property(p.name, p.type, p.init # "" \/ p.optional,
                             IF p.init # "" THEN parsed.v ELSE Undefined)
    IN IF p.init # "" /\ ~parsed.ok THEN [ok |-> FALSE, schema |-> schema]
       ELSE ASTParameters(parameters, i + 1,
              [schema EXCEPT !.properties = PutProperty(@, property)])

\* getParametersFromAST(file, fn), declarations being the named functions and
\* methods of the file: found = FALSE is the result undefined
getParametersFromAST(declarations, fn) ==
  IF \E i \in 1..Len(declarations) :
       declarations[i].decl.named /\ declarations[i].name = fn.name
  THEN LET functionNode ==
             declarations[CHOOSE i \in 1..Len(declarations) :
               /\ declarations[i].decl.named /\ declarations[i].name = fn.name
               /\ \A j \in 1..(i - 1) :
                    ~(declarations[j].decl.named /\ declarations[j].name = fn.name)]
           r == ASTParameters(functionNode.decl.params, 1,
                              [id |-> fn.name, properties |-> <<>>, required |-> <<>>])
       IN [ok |-> r.ok, found |-> TRUE, schema |-> r.schema]
  ELSE [ok |-> TRUE, found |-> FALSE,
        schema |-> [id |-> fn.name, properties |-> <<>>, required |-> <<>>]]

(***************************************************************************)
(* typeOf (src/unnamed/part_006).  Beside the values above it is given    *)
(* symbols and instances of named classes.                                 *)
(***************************************************************************)

Symbol == [t |-> "symbol"]
\* new <ctor>(...): an object whose constructor has that name
Instance(ctor) == [t |-> "instance", ctor |-> ctor]

\* the characters of the texts typeOf sorts, in the order of their code units
CodeUnits ==
  " !#$%&()*+,-./0123456789:;<=>?@ABCDEFGHIJKLMNOPQRSTUVWXYZ[]_abcdefghijklmnopqrstuvwxyz{|}~"

\* a < b as Array.prototype.sort compares strings without a comparator: by
\* code units, a proper prefix first
RECURSIVE StringBefore(_, _)
StringBefore(a, b) ==
  IF b = "" THEN FALSE
  ELSE IF a = "" THEN TRUE
  ELSE IF CharAt(a, 1) = CharAt(b, 1) THEN StringBefore(From(a, 2), From(b, 2))
  ELSE IndexOf(CodeUnits, CharAt(a, 1)) < IndexOf(CodeUnits, CharAt(b, 1))

\* Array.from(strings).sort() for distinct strings
RECURSIVE SortStrings(_)
SortStrings(strings) ==
  IF strings = {} THEN <<>>
  ELSE LET first == CHOOSE a \in strings : \A b \in strings \ {a} : StringBefore(a, b)
       IN <<first>> \o SortStrings(strings \ {first})

\* a typeOf that does not look inside arrays and objects
typeOfShallow(value, useFullTypes) ==
  CASE value.t = "undefined" -> "unknown"
    [] value.t = "null" -> "null"
    [] value.t \in {"string", "number", "boolean", "symbol"} -> value.t
    [] value.t = "array" -> "unknown[]"
    [] value.t = "instance" -> value.ctor
    [] OTHER -> "object"

\* typeOf(value, useFullTypes)
RECURSIVE typeOf(_, _)
typeOf(value, useFullTypes) ==
  IF value.t = "undefined" THEN "unknown"
  ELSE IF value.t = "null" THEN "null"
  ELSE IF value.t \in {"string", "number", "boolean", "symbol"} THEN value.t
  ELSE IF value.t = "array"
    THEN LET innerTypes == {typeOf(value.v[i], useFullTypes) : i \in 1..Len(value.v)}
             fullType == Join(SortStrings(innerTypes), "|")
         IN IF Cardinality(innerTypes) = 0 THEN "unknown[]"
            ELSE IF Cardinality(innerTypes) > 1 /\ ~useFullTypes THEN "unknown[]"
            ELSE (IF Cardinality(innerTypes) = 1 THEN fullType ELSE "(" \o fullType \o ")")
                 \o "[]"
  ELSE IF value.t = "instance" THEN value.ctor
  ELSE IF value.t = "error" THEN value.name
  ELSE IF ~useFullTypes THEN "object"
  ELSE "{" \o Join(SortStrings({k \o ":" \o typeOf(value.v[k], useFullTypes) :
                                  k \in DOMAIN value.v}), ",") \o "}"

(***************************************************************************)
(* URLPattern: a pathname pattern of literal segments and named captures.  *)
(* A capture ":name" matches one or more characters other than "/"; the    *)
(* patterns of the model hold at most one capture per segment.             *)
(***************************************************************************)

\* a character of a capture name
IsNameChar(c) ==
  Place(LowerLetters, c) > 0 \/ Place(UpperLetters, c) > 0 \/ IsDigit(c) \/ c \in {"$", "_"}

RECURSIVE NamePrefix(_)
NamePrefix(s) ==
  IF s # "" /\ IsNameChar(CharAt(s, 1)) THEN 1 + NamePrefix(From(s, 2)) ELSE 0

\* the parts of one pattern segment: the literal before the capture, the
\* capture's name and the literal after it (capture = FALSE: all literal)
SegmentParts(pseg) ==
  LET i == IndexOf(pseg, ":")
      k == NamePrefix(From(pseg, i + 1))
  IN IF i = 0 THEN [capture |-> FALSE, before |-> pseg, name |-> "", after |-> ""]
     ELSE [capture |-> TRUE, before |-> SubSeq(pseg, 1, i - 1),
           name |-> SubSeq(pseg, i + 1, i + k), after |-> From(pseg, i + k + 1)]

SegmentTest(pseg, useg) ==
  LET parts == SegmentParts(pseg)
  IN IF ~parts.capture THEN pseg = useg
     ELSE /\ StartsWith(useg, parts.before)
          /\ EndsWith(useg, parts.after)
          /\ Len(useg) > Len(parts.before) + Len(parts.after)

\* what the capture of pseg holds when useg matches it
SegmentGroup(pseg, useg) ==
  LET parts == SegmentParts(pseg)
  IN SubSeq(useg, Len(parts.before) + 1, Len(useg) - Len(parts.after))

\* new URLPattern({ pathname }).test(url): only the pathname is constrained
PatternTest(pathname, urlPath) ==
  LET ps == Split(pathname, "/")
      us == Split(urlPath, "/")
  IN Len(ps) = Len(us) /\ \A i \in 1..Len(ps) : SegmentTest(ps[i], us[i])

\* pattern.exec(url).pathname.groups, for a url the pattern matches
PatternGroups(pathname, urlPath) ==
  LET ps == Split(pathname, "/")
      us == Split(urlPath, "/")
      caps == {i \in 1..Len(ps) : SegmentParts(ps[i]).capture}
  IN [n \in {SegmentParts(ps[i]).name : i \in caps} |->
        LET i == CHOOSE j \in caps : SegmentParts(ps[j]).name = n
        IN Str(SegmentGroup(ps[i], us[i]))]

(***************************************************************************)
(* Routes (src/src/grout.ts, extractRoutes)                                *)
(***************************************************************************)

HTTP_METHODS == <<"DELETE", "GET", "HEAD", "OPTIONS", "PATCH", "POST", "PUT">>

\* HTTP_METHODS.includes(method)
IsHttpMethod(method) == \E i \in 1..Len(HTTP_METHODS) : HTTP_METHODS[i] = method

\* name.replace("_$_", ".").replace("$", ":").split("_")
NameParts(name) == Split(ReplaceFirst(ReplaceFirst(name, "_$_", "."), "$", ":"), "_")

\* base + (parts.length ? "/" : "") + parts.join("/"), parts being the name's
\* pieces after the method
Pathname(base, name) ==
  LET parts == Tail(NameParts(name))
  IN base \o (IF Len(parts) > 0 THEN "/" ELSE "") \o Join(parts, "/")

\* the route of one member; schema is what getParameters(handler) returned
Route(base, name, schema) ==
  [pathname |-> Pathname(base, name),
   method |-> ToUpperCase(Head(NameParts(name))),
   handler |-> name,
   schema |-> schema]

\* a comparator that puts the routes with more captures first
CompareRoutesWrongWay(r1, r2) ==
  LET p1 == CountChar(r1.pathname, ":")
      p2 == CountChar(r2.pathname, ":")
  IN IF p1 # p2 THEN p2 - p1 ELSE Len(r2.pathname) - Len(r1.pathname)

\* the comparator of routes.sort: negative when r1 comes first
CompareRoutes(r1, r2) ==
  LET p1 == CountChar(r1.pathname, ":")
      p2 == CountChar(r2.pathname, ":")
  IN IF p1 # p2 THEN p1 - p2 ELSE Len(r2.pathname) - Len(r1.pathname)

\* Array.prototype.sort is stable: r goes after every route it does not precede
RECURSIVE InsertRoute(_, _)
InsertRoute(sorted, r) ==
  IF Len(sorted) = 0 THEN <<r>>
  ELSE LET last == sorted[Len(sorted)]
       IN IF CompareRoutes(last, r) <= 0 THEN Append(sorted, r)
          ELSE Append(InsertRoute(SubSeq(sorted, 1, Len(sorted) - 1), r), last)

RECURSIVE SortRoutes(_)
SortRoutes(routes) ==
  IF Len(routes) = 0 THEN <<>>
  ELSE InsertRoute(SortRoutes(SubSeq(routes, 1, Len(routes) - 1)), routes[Len(routes)])

(***************************************************************************)
(* Controllers.  A controller instance is a record: className              *)
(* (constructor.name), base (the declared base path, "" when none is       *)
(* declared), file (the source file that declares its class) and names,    *)
(* its properties in the order extractRoutes enumerates them: the          *)
(* prototype's own names, then the instance's own names.                   *)
(***************************************************************************)

\* a method declared in the class body
Method(name, src, params) ==
  [name |-> name, callable |-> TRUE, src |-> src,
   decl |-> [named |-> TRUE, params |-> params]]

\* an own data property (not a function)
DataProperty(name) ==
  [name |-> name, callable |-> FALSE, src |-> "",
   decl |-> [named |-> FALSE, params |-> <<>>]]

\* an own property of the instance holding an arrow function or an anonymous
\* function expression (a class field "name = () => ..."): fn.name is the
\* field's name, while the file declares no function or method of that name
FunctionField(name, src) ==
  [name |-> name, callable |-> TRUE, src |-> src,
   decl |-> [named |-> FALSE, params |-> <<>>]]

\* the users fixture: class UsersController
UsersController ==
  [className |-> "UsersController", base |-> "", file |-> "users.controller.ts",
   names |-> <<
     Method("constructor", "class UsersController { }", <<>>),
     Method("find", "find(name) { }", <<Param("name", "string", FALSE, "")>>),
     Method("delete_$id", "delete_$id(id = -1) { }", <<Param("id", "number", FALSE, "-1")>>),
     Method("get", "get(sort = false) { }", <<Param("sort", "boolean", FALSE, "false")>>),
     Method("get_admins", "get_admins($user) { }", <<Param("$user", "string", FALSE, "")>>),
     Method("get_multiple", "get_multiple(ids) { }", <<Param("ids", "number[]", FALSE, "")>>),
     Method("get_$id", "get_$id(id = -1) { }", <<Param("id", "number", FALSE, "-1")>>),
     Method("get_$id_async", "get_$id_async(id = -1) { }",
            <<Param("id", "number", FALSE, "-1")>>),
     Method("head", "head() { }", <<>>),
     Method("patch_$id", "patch_$id(id = -1, $body) { }",
            <<Param("id", "number", FALSE, "-1"), Param("$body", "Partial<User>", FALSE, "")>>),
     Method("post", "post($body) { }", <<Param("$body", "User", FALSE, "")>>),
     Method("put_$id", "put_$id(id = 1, $body) { }",
            <<Param("id", "number", FALSE, "1"), Param("$body", "User", FALSE, "")>>),
     Method("get_$id_avatar_$_png", "get_$id_avatar_$_png(id = -1) { }",
            <<Param("id", "number", FALSE, "-1")>>),
     Method("get_pgp", "get_pgp() { }", <<>>),
     Method("get_policy", "get_policy() { }", <<>>) >>]

\* a second controller, with what the fixture lacks: a declared base path, a
\* string default, a camel-case parameter, a required parameter beside $user,
\* a handler that throws the error it is asked for, a Response returned
\* under a path with an extension, a binary body and an HTML text
DocsController ==
  [className |-> "DocsController", base |-> "/docs", file |-> "docs.controller.ts",
   names |-> <<
     Method("constructor", "class DocsController { }", <<>>),
     Method("get_echo", "get_echo(name = \"foo\") { }",
            <<Param("name", "string", FALSE, "\"foo\"")>>),
     Method("get_page", "get_page(pageSize = 10) { }",
            <<Param("pageSize", "number", FALSE, "10")>>),
     Method("get_secret", "get_secret($user, key) { }",
            <<Param("$user", "string", FALSE, ""), Param("key", "string", FALSE, "")>>),
     Method("get_raise", "get_raise(kind) { }", <<Param("kind", "string", FALSE, "")>>),
     Method("get_report_$_pdf", "get_report_$_pdf() { }", <<>>),
     Method("get_blob", "get_blob() { }", <<>>),
     Method("get_html", "get_html() { }", <<>>),
     DataProperty("base") >>]

\* a controller whose routes overlap: a literal beside the capture it
\* specializes, and two routes that each hold a literal where the other
\* captures; its methods return their own name
PathsController ==
  [className |-> "PathsController", base |-> "", file |-> "paths.controller.ts",
   names |-> <<
     Method("constructor", "class PathsController { }", <<>>),
     Method("get_$id", "get_$id(id) { }", <<Param("id", "string", FALSE, "")>>),
     Method("get_admins", "get_admins() { }", <<>>),
     Method("get_$y_b", "get_$y_b(y) { }", <<Param("y", "string", FALSE, "")>>),
     Method("get_a_$x", "get_a_$x(x) { }", <<Param("x", "string", FALSE, "")>>) >>]

\* a controller with handlers assigned to class fields beside its methods
FieldsController ==
  [className |-> "FieldsController", base |-> "", file |-> "fields.controller.ts",
   names |-> <<
     Method("constructor", "class FieldsController { }", <<>>),
     Method("get_echo", "get_echo(name = \"foo\") { }",
            <<Param("name", "string", FALSE, "\"foo\"")>>),
     Method("get_me", "get_me($user) { }", <<Param("$user", "string", FALSE, "")>>),
     FunctionField("get_ping", "() => \"pong\""),
     FunctionField("get_hello", "function (name = \"foo\") { }") >>]

\* a controller whose handlers declare the parameters handle fills in itself,
\* one of them beside a capture of the same name
ReservedController ==
  [className |-> "ReservedController", base |-> "", file |-> "reserved.controller.ts",
   names |-> <<
     Method("constructor", "class ReservedController { }", <<>>),
     Method("get_me", "get_me($user) { }", <<Param("$user", "any", FALSE, "")>>),
     Method("post_note", "post_note($body) { }", <<Param("$body", "any", FALSE, "")>>),
     Method("get_raw", "get_raw($request) { }", <<Param("$request", "any", FALSE, "")>>),
     Method("put_$$user", "put_$$user($user) { }", <<Param("$user", "any", FALSE, "")>>),
     Method("patch_all", "patch_all($request, $body, $user) { }",
            <<Param("$request", "any", FALSE, ""), Param("$body", "any", FALSE, ""),
              Param("$user", "any", FALSE, "")>>) >>]

\* the default values a handler's parameter is declared with, as written in
\* the source, each with the type the compiler gives the parameter
DefaultTexts ==
  << [text |-> "10", type |-> "number"],
     [text |-> "\"foo\"", type |-> "string"],
     [text |-> "[1]", type |-> "number[]"],
     [text |-> "[1, 2]", type |-> "number[]"],
     [text |-> "new Date()", type |-> "Date"],
     [text |-> "Infinity", type |-> "number"] >>

DefaultsFile(i) == "defaults" \o NatToString(i) \o ".controller.ts"

\* a controller with one handler, get_list(tags = <the i-th default>)
DefaultsController(i) ==
  [className |-> "DefaultsController", base |-> "", file |-> DefaultsFile(i),
   names |-> <<
     Method("constructor", "class DefaultsController { }", <<>>),
     Method("get_list", "get_list(tags = " \o DefaultTexts[i].text \o ") { }",
            <<Param("tags", DefaultTexts[i].type, FALSE, DefaultTexts[i].text)>>) >>]

CtrlIds == {"users", "docs"}

\* the database of the users fixture: const users = [...]
InitialUsers ==
  << Obj([id |-> Num(0), name |-> Str("root"), admin |-> Bool(TRUE)]),
     Obj([id |-> Num(1), name |-> Str("John")]),
     Obj([id |-> Num(2), name |-> Str("Jane")]),
     Obj([id |-> Num(3), name |-> Str("Patrick")]) >>

(***************************************************************************)
(* Handlers: what calling a controller method does (src/unnamed/part_005   *)
(* for the users fixture).  The result is a record: kind "return" with the *)
(* value v, "throw" with the error v, or "pending" for a promise that is   *)
(* settled later; users is the database after the call.                    *)
(***************************************************************************)

\* new Response(body, { status, headers: { "content-type": ct } }); ct = "" when
\* no content type is given; origin tells the object's creator apart
Response(status, ct, body, origin) ==
  [t |-> "Response", status |-> status, ct |-> ct, body |-> body, origin |-> origin]

\* o[k] for a value o
Field(o, k) == IF o.t = "object" /\ k \in DOMAIN o.v THEN o.v[k] ELSE Undefined

\* the i-th argument, or the parameter's default when it is undefined or absent
Arg(args, i, default) ==
  IF i <= Len(args) /\ args[i] # Undefined THEN args[i] ELSE default

\* a search that stops at the first record whatever its id
UserIndexFirst(db, id) == IF Len(db) > 0 THEN 1 ELSE 0

\* users.findIndex((u) => u.id === id) + 1
UserIndex(db, id) ==
  IF \E i \in 1..Len(db) : Field(db[i], "id") = id
  THEN CHOOSE i \in 1..Len(db) :
         Field(db[i], "id") = id /\ \A j \in 1..(i - 1) : Field(db[j], "id") # id
  ELSE 0

\* users.filter(keep), keep being a set of places
RECURSIVE FilterPlaces(_, _)
FilterPlaces(db, keep) ==
  IF Len(db) = 0 THEN <<>>
  ELSE FilterPlaces(SubSeq(db, 1, Len(db) - 1), keep)
         \o (IF Len(db) \in keep THEN <<db[Len(db)]>> ELSE <<>>)

\* Object.assign(target, source) on plain objects; a string source gives its
\* characters under their indices, undefined, null, numbers and booleans nothing
ObjectAssign(target, source) ==
  LET extra ==
        CASE source.t = "object" -> source.v
          [] source.t = "string" ->
               [k \in {NatToString(i - 1) : i \in 1..Len(source.v)} |->
                  Str(CharAt(source.v, CHOOSE i \in 1..Len(source.v) : NatToString(i - 1) = k))]
          [] source.t \in {"undefined", "null", "number", "boolean"} -> <<>>
  IN Obj([k \in DOMAIN target.v \cup DOMAIN extra |->
            IF k \in DOMAIN extra THEN extra[k] ELSE target.v[k]])

\* a.localeCompare(b) < 0 for names of ASCII letters: case-blind dictionary order
RECURSIVE NameBefore(_, _)
NameBefore(a, b) ==
  IF b = "" THEN FALSE
  ELSE IF a = "" THEN TRUE
  ELSE LET x == ToUpperCase(CharAt(a, 1))
           y == ToUpperCase(CharAt(b, 1))
       IN IF x = y THEN NameBefore(From(a, 2), From(b, 2))
          ELSE Place(UpperLetters, x) < Place(UpperLetters, y)

\* list.toSorted((a, b) => a.name.localeCompare(b.name))
RECURSIVE SortByName(_)
SortByName(list) ==
  IF Len(list) <= 1 THEN list
  ELSE LET rest == SortByName(SubSeq(list, 1, Len(list) - 1))
           u == list[Len(list)]
           k == Cardinality({i \in 1..Len(rest) :
                  ~NameBefore(StringOf(Field(u, "name")), StringOf(Field(rest[i], "name")))})
       IN SubSeq(rest, 1, k) \o <<u>> \o SubSeq(rest, k + 1, Len(rest))

\* Math.max(...users.map((u) => u.id)), the ids being numbers
MaxId(db) ==
  CHOOSE m \in {Field(db[i], "id").v : i \in 1..Len(db)} :
    \A i \in 1..Len(db) : Field(db[i], "id").v <= m

Return(v, db) == [kind |-> "return", v |-> v, users |-> db]
Throw(name, db) == [kind |-> "throw", v |-> Err(name, ""), users |-> db]
Pending(db) == [kind |-> "pending", v |-> Undefined, users |-> db]

\* the methods of UsersController
InvokeUsers(handler, args, db) ==
  LET id == Arg(args, 1, Num(-1))
      i == UserIndex(db, id)
      body == Arg(args, 2, Undefined)
  IN CASE handler = "find" ->
            LET name == Arg(args, 1, Undefined)
                hit == {j \in 1..Len(db) : Field(db[j], "name") = name}
            IN Return(IF hit = {} THEN Undefined
                      ELSE db[CHOOSE j \in hit : \A k \in hit : j <= k], db)
       [] handler = "delete_$id" ->
            IF i = 0 THEN Throw("NotFound", db)
            ELSE Return(Obj([id |-> id, status |-> Str("deleted")]),
                        SubSeq(db, 1, i - 1) \o SubSeq(db, i + 1, Len(db)))
       [] handler = "get" ->
            LET sort == Arg(args, 1, Bool(FALSE))
                list == FilterPlaces(db, {j \in 1..Len(db) : ~Truthy(Field(db[j], "admin"))})
            IN Return(Arr(IF Truthy(sort) THEN SortByName(list) ELSE list), db)
       [] handler = "get_admins" ->
            LET user == Arg(args, 1, Undefined)
                hit == {j \in 1..Len(db) : Field(db[j], "name") = user}
                found == IF hit = {} THEN Undefined
                         ELSE db[CHOOSE j \in hit : \A k \in hit : j <= k]
            IN IF ~Truthy(Field(found, "admin")) THEN Throw("PermissionDenied", db)
               ELSE Return(Arr(FilterPlaces(db,
                      {j \in 1..Len(db) : Truthy(Field(db[j], "admin"))})), db)
       [] handler = "get_multiple" ->
            \* ids arrives as text: String.prototype.includes is a substring test
            LET ids == Arg(args, 1, Undefined)
            IN Return(Arr(FilterPlaces(db, {j \in 1..Len(db) :
                 IndexOf(StringOf(ids), StringOf(Field(db[j], "id"))) > 0})), db)
       [] handler = "get_$id" ->
            IF i = 0 THEN Throw("NotFound", db) ELSE Return(db[i], db)
       [] handler = "get_$id_async" -> Pending(db)
       [] handler = "head" -> Return(Obj([thisWillNot |-> Str("beSent")]), db)
       [] handler = "patch_$id" ->
            IF i = 0 THEN Throw("NotFound", db)
            ELSE Return(Obj([id |-> id, status |-> Str("patched")]),
                        [db EXCEPT ![i] = ObjectAssign(@, body)])
       [] handler = "post" ->
            LET postBody == Arg(args, 1, Undefined)
                newId == IF Truthy(Field(postBody, "id")) THEN Field(postBody, "id")
                         ELSE Num(MaxId(db) + 1)
            IN IF postBody.t \in {"undefined", "null"} THEN Throw("TypeError", db)
               ELSE IF UserIndex(db, Field(postBody, "id")) > 0 THEN Throw("AlreadyExists", db)
               ELSE IF postBody.t = "object"
                 THEN Return(Obj([id |-> newId, status |-> Str("posted")]),
                             Append(db, ObjectAssign(postBody, Obj([id |-> newId]))))
               \* user.id = ... on a primitive throws in strict mode
               ELSE Throw("TypeError", db)
       [] handler = "put_$id" ->
            LET pid == Arg(args, 1, Num(1))
                pi == UserIndex(db, pid)
            IN IF pi = 0 THEN Throw("NotFound", db)
               ELSE Return(Obj([id |-> pid, status |-> Str("put")]),
                           [db EXCEPT ![pi] = ObjectAssign(@, body)])
       [] handler = "get_$id_avatar_$_png" ->
            IF i = 0 THEN Throw("NotFound", db) ELSE Return(Str("PNG"), db)
       [] handler = "get_pgp" ->
            Return(Response(200, "application/pgp-encrypted", Str("PGP"), "handler"), db)
       [] handler = "get_policy" ->
            \* Response.redirect(url)
            Return(Response(302, "", Str(""), "handler"), db)

\* the promise of get_$id_async settles when its timer fires
SettleUsers(handler, args, db) ==
  LET i == UserIndex(db, Arg(args, 1, Num(-1)))
  IN IF i = 0 THEN Throw("NotFound", db) ELSE Return(db[i], db)

\* the methods of DocsController
InvokeDocs(handler, args, db) ==
  CASE handler = "get_echo" -> Return(Arg(args, 1, Str("foo")), db)
    [] handler = "get_page" -> Return(Obj([pageSize |-> Arg(args, 1, Num(10))]), db)
    [] handler = "get_secret" -> Return(Arg(args, 2, Undefined), db)
    [] handler = "get_raise" -> Throw(StringOf(Arg(args, 1, Undefined)), db)
    [] handler = "get_report_$_pdf" ->
         Return(Response(200, "application/x-report", Str("REPORT"), "handler"), db)
    [] handler = "get_blob" -> Return([t |-> "ArrayBuffer"], db)
    [] handler = "get_html" -> Return(Str("<b>hi</b>"), db)

\* the methods and function fields of FieldsController
InvokeFields(handler, args, db) ==
  CASE handler = "get_echo" -> Return(Arg(args, 1, Str("foo")), db)
    [] handler = "get_me" -> Return(Arg(args, 1, Undefined), db)
    [] handler = "get_ping" -> Return(Str("pong"), db)
    [] handler = "get_hello" -> Return(Arg(args, 1, Str("foo")), db)

\* route.handler.apply(controller, args)
Invoke(className, handler, args, db) ==
  CASE className = "UsersController" -> InvokeUsers(handler, args, db)
    [] className = "DocsController" -> InvokeDocs(handler, args, db)
    [] className = "PathsController" -> Return(Str(handler), db)
    [] className = "FieldsController" -> InvokeFields(handler, args, db)
    [] className = "DefaultsController" -> Return(Arg(args, 1, Undefined), db)
    [] className = "ReservedController" -> Return(Str(handler), db)

(***************************************************************************)
(* The dispatcher (src/src/grout.ts)                                       *)
(***************************************************************************)

\* what getParameters(handler) gives as a route's schema; defined = FALSE is the
\* schema undefined
NoSchema == [defined |-> FALSE, id |-> "", properties |-> <<>>, required |-> <<>>]
Schema(schema) ==
  [defined |-> TRUE, id |-> schema.id, properties |-> schema.properties,
   required |-> schema.required]

\* the strategy that handle installs in the global getParameters: "unset" before
\* the first handle, "source" without a fileName, "ast" with one
Strategy(kind, file) == [kind |-> kind, file |-> file]

\* the declarations of a source file: the members of the class it declares
FileDeclarations(file) ==
  CASE file = "users.controller.ts" -> UsersController.names
    [] file = "docs.controller.ts" -> DocsController.names
    [] file = "paths.controller.ts" -> PathsController.names
    [] file = "fields.controller.ts" -> FieldsController.names
    [] file = "reserved.controller.ts" -> ReservedController.names
    [] \E i \in DOMAIN DefaultTexts : file = DefaultsFile(i) ->
         DefaultsController(CHOOSE i \in DOMAIN DefaultTexts : file = DefaultsFile(i)).names

\* getParameters(handler) as handle defines it: threw tells a thrown exception
\* (calling the unset getParameters, or JSON.parse inside the strategy)
GetParameters(strategy, fn) ==
  LET thrown(error) == [threw |-> TRUE, error |-> error, schema |-> NoSchema]
      given(schema) == [threw |-> FALSE, error |-> Undefined, schema |-> schema]
      fromSource(r) == IF r.ok THEN given(Schema(r.schema)) ELSE thrown(Err("SyntaxError", ""))
      fromAST(r) ==
        IF ~r.ok THEN thrown(Err("SyntaxError", ""))
        ELSE given(IF r.found THEN Schema(r.schema) ELSE NoSchema)
  IN CASE strategy.kind = "unset" -> thrown(Err("TypeError", "getParameters is not a function"))
       [] strategy.kind = "source" -> fromSource(getParametersFromSource(fn))
       [] strategy.kind = "ast" ->
            fromAST(getParametersFromAST(FileDeclarations(strategy.file), fn))

\* the names extractRoutes iterates over: the prototype's, then the instance's
\* own ones that are not among them; a controller record lists them in that order
RECURSIVE DistinctNames(_)
DistinctNames(names) ==
  IF Len(names) = 0 THEN <<>>
  ELSE LET front == DistinctNames(SubSeq(names, 1, Len(names) - 1))
           last == names[Len(names)]
       IN IF \E i \in 1..Len(front) : front[i].name = last.name THEN front
          ELSE Append(front, last)

\* a test that takes every callable member but the constructor
IsRouteMemberAnyCallable(member) == member.name # "constructor" /\ member.callable

\* whether the member becomes a route
IsRouteMember(member) ==
  /\ member.name # "constructor"
  /\ member.callable
  /\ IsHttpMethod(ToUpperCase(Head(NameParts(member.name))))

\* the loop "for (const name of names)" from member i on
RECURSIVE ScanMembers(_, _, _, _, _)
ScanMembers(names, i, base, strategy, routes) ==
  LET push(got) ==
        IF got.threw THEN [threw |-> TRUE, error |-> got.error, routes |-> routes]
        ELSE ScanMembers(names, i + 1, base, strategy,
                         Append(routes, Route(base, names[i].name, got.schema)))
  IN IF i > Len(names) THEN [threw |-> FALSE, error |-> Undefined, routes |-> routes]
     ELSE IF ~IsRouteMember(names[i]) THEN ScanMembers(names, i + 1, base, strategy, routes)
     ELSE push(GetParameters(strategy, names[i]))

\* a cache entry that holds the list short of its last route
EntryCutShort(routes) ==
  [set |-> TRUE, routes |-> SubSeq(routes, 1, Len(routes) - 1)]

\* a cache entry: cache.get(controller); set = FALSE when the map has no entry
NoEntry == [set |-> FALSE, routes |-> <<>>]
Entry(routes) == [set |-> TRUE, routes |-> routes]

\* the body of extractRoutes below its cache test: the scan of the members, the
\* sort and cache.set
extractRoutesNoCache(controller, base, entry, strategy) ==
  LET sorted(routes) ==
        [threw |-> FALSE, error |-> Undefined, routes |-> routes,
         entry |-> Entry(routes), scanned |-> TRUE]
      scanned(scan) ==
        IF scan.threw
        THEN [threw |-> TRUE, error |-> scan.error, routes |-> <<>>,
              entry |-> entry, scanned |-> TRUE]
        ELSE sorted(SortRoutes(scan.routes))
  IN scanned(ScanMembers(DistinctNames(controller.names), 1, base, strategy, <<>>))

\* an extractRoutes whose cached list counts only for the base it was built with
extractRoutesPerBase(controller, base, entry, strategy) ==
  IF entry.set /\ \A i \in 1..Len(entry.routes) : StartsWith(entry.routes[i].pathname, base)
  THEN [threw |-> FALSE, error |-> Undefined, routes |-> entry.routes,
        entry |-> entry, scanned |-> FALSE]
  ELSE extractRoutesNoCache(controller, base, entry, strategy)

\* extractRoutes(controller, base) against the cache entry of the controller:
\* the routes returned, the entry afterwards, whether the members were scanned
extractRoutes(controller, base, entry, strategy) ==
  IF entry.set
  THEN [threw |-> FALSE, error |-> Undefined, routes |-> entry.routes,
        entry |-> entry, scanned |-> FALSE]
  ELSE extractRoutesNoCache(controller, base, entry, strategy)

\* a lookup that takes the first route whose pattern matches, whatever its method
matchRouteAnyMethod(routes, method, urlPath) ==
  LET hits == {i \in 1..Len(routes) : PatternTest(routes[i].pathname, urlPath)}
  IN IF hits = {} THEN 0 ELSE CHOOSE i \in hits : \A j \in hits : i <= j

\* matchRoute: the place in routes of the first route of that method whose
\* pattern matches the url, 0 for undefined
matchRoute(routes, method, urlPath) ==
  LET hits == {i \in 1..Len(routes) :
                 routes[i].method = method /\ PatternTest(routes[i].pathname, urlPath)}
  IN IF hits = {} THEN 0 ELSE CHOOSE i \in hits : \A j \in hits : i <= j

\* countRoutes: how many routes' patterns match the url, whatever their method
countRoutes(routes, urlPath) ==
  Cardinality({i \in 1..Len(routes) : PatternTest(routes[i].pathname, urlPath)})

\* requestParameters[name]
Lookup(bag, name) == IF name \in DOMAIN bag THEN bag[name] ELSE Undefined

\* requestParameters[name] = value
Put(bag, name, value) ==
  [k \in DOMAIN bag \cup {name} |-> IF k = name THEN value ELSE bag[k]]

InvalidData(message) == Err("InvalidData", message)

\* a test that finds no parameter required
NeverRequired(fpv, rpv) == FALSE

\* fpv === undefined && rpv === undefined
IsRequiredAndMissing(fpv, rpv) == fpv = Undefined /\ rpv = Undefined

\* one turn of the loop of validate: the value for the property, or the error
ValidateProperty(bag, prop) ==
  LET fpn == prop.name
      fpv == prop.default
      rpv == OrElse(Lookup(bag, fpn), Lookup(bag, kebabCase(fpn)))
      isDefined == rpv # Undefined
      notOfType(type) ==
        InvalidData("Parameter '" \o fpn \o "' with value '" \o StringOf(rpv)
                    \o "' is not of type '" \o type \o "'")
      n == ParseInt(StringOf(rpv))
      parsed == JsonParse(StringOf(rpv))
  IN IF IsRequiredAndMissing(fpv, rpv)
       THEN [ok |-> FALSE, v |-> InvalidData("Parameter '" \o fpn \o "' is required")]
     ELSE IF TypeOf(fpv) = "boolean" /\ isDefined
       THEN IF rpv # Str("true") /\ rpv # Str("false")
              THEN [ok |-> FALSE, v |-> notOfType("boolean")]
            ELSE [ok |-> TRUE, v |-> Bool(rpv = Str("true"))]
     ELSE IF TypeOf(fpv) = "number" /\ isDefined
       THEN IF n.nan THEN [ok |-> FALSE, v |-> notOfType("number")]
            ELSE [ok |-> TRUE, v |-> Num(n.n)]
     ELSE IF TypeOf(fpv) = "object" /\ isDefined
       THEN IF ~parsed.ok THEN [ok |-> FALSE, v |-> notOfType("object")]
            ELSE [ok |-> TRUE, v |-> parsed.v]
     ELSE [ok |-> TRUE, v |-> rpv]

\* validate(requestParameters, properties) from property i on: the values of
\* the parameters in the order of the properties (Object.values(parameters)), or
\* the InvalidData thrown at the first property that fails
RECURSIVE ValidateFrom(_, _, _, _)
ValidateFrom(bag, properties, i, parameters) ==
  LET next(one) ==
        IF ~one.ok THEN [ok |-> FALSE, args |-> <<>>, error |-> one.v]
        ELSE ValidateFrom(bag, properties, i + 1, Append(parameters, one.v))
  IN IF i > Len(properties) THEN [ok |-> TRUE, args |-> parameters, error |-> Undefined]
     ELSE next(ValidateProperty(bag, properties[i]))

\* a validate whose values come out in the reverse of the properties' order
validateReversed(requestParameters, properties) ==
  LET r == ValidateFrom(requestParameters, properties, 1, <<>>)
  IN [r EXCEPT !.args = [i \in 1..Len(@) |-> @[Len(@) + 1 - i]]]

validate(requestParameters, properties) == ValidateFrom(requestParameters, properties, 1, <<>>)

(***************************************************************************)
(* Requests.  A request is a record: method, path (the pathname of its     *)
(* url), query (the decoded name/value pairs of its search, in order),     *)
(* user (the x-user header), contentType (the content-type header, ""      *)
(* for none) and body (its text).                                          *)
(***************************************************************************)

Request(method, path, query, user, contentType, body) ==
  [method |-> method, path |-> path, query |-> query, user |-> user,
   contentType |-> contentType, body |-> body]

\* one query pair
Pair(name, value) == [name |-> name, value |-> value]

\* the percent-encoding the url keeps for a double quote
RECURSIVE EncodeSearch(_)
EncodeSearch(s) ==
  IF s = "" THEN ""
  ELSE (IF CharAt(s, 1) = "\"" THEN "%22" ELSE CharAt(s, 1)) \o EncodeSearch(From(s, 2))

\* the search of the url, without its question mark
Search(query) ==
  Join([i \in 1..Len(query) |->
          EncodeSearch(query[i].name) \o "=" \o EncodeSearch(query[i].value)], "&")

\* a loop over the query in which a later entry replaces what the bag holds
RECURSIVE AddQueryOverwriting(_, _, _)
AddQueryOverwriting(bag, query, i) ==
  IF i > Len(query) THEN bag
  ELSE AddQueryOverwriting(Put(bag, query[i].name, Str(query[i].value)), query, i + 1)

\* the loop "for (const [name, value] of usp)": a name already in the bag is
\* skipped
RECURSIVE AddQuery(_, _, _)
AddQuery(bag, query, i) ==
  IF i > Len(query) THEN bag
  ELSE AddQuery(IF query[i].name \in DOMAIN bag THEN bag
                ELSE Put(bag, query[i].name, Str(query[i].value)), query, i + 1)

\* requestParameters before the special values: the groups of the match (the
\* search component is a wildcard, whose group is named "0"), the query, $request
RequestParameters(route, req) ==
  LET groups == PatternGroups(route.pathname, req.path)
      match == [k \in {"0"} \cup DOMAIN groups |->
                  IF k \in DOMAIN groups THEN groups[k] ELSE Str(Search(req.query))]
  IN Put(AddQuery(match, req.query, 1), "$request", [t |-> "Request"])

\* parts.length > 1 ? parts.pop() : undefined, on pathname.split(".")
Extension(path) ==
  LET parts == Split(path, ".")
  IN IF Len(parts) > 1 THEN Str(parts[Len(parts)]) ELSE Undefined

\* Object.fromEntries(await request.formData()) for a urlencoded body
FormData(text) ==
  LET pieces == IF text = "" THEN <<>> ELSE Split(text, "&")
      key(piece) == IF IndexOf(piece, "=") = 0 THEN piece
                    ELSE SubSeq(piece, 1, IndexOf(piece, "=") - 1)
      val(piece) == IF IndexOf(piece, "=") = 0 THEN "" ELSE From(piece, IndexOf(piece, "=") + 1)
  IN Obj([k \in {key(pieces[i]) : i \in 1..Len(pieces)} |->
            LET last == CHOOSE i \in 1..Len(pieces) :
                          key(pieces[i]) = k /\ \A j \in (i + 1)..Len(pieces) : key(pieces[j]) # k
            IN Str(val(pieces[last]))])

\* a decoding that takes every body as text
DecodeBodyAsText(req) == [ok |-> TRUE, v |-> Str(req.body)]

\* the decoding of $body by content type; ok = FALSE when request.json() throws
DecodeBody(req) ==
  LET ct == IF req.contentType = "" THEN "application/json" ELSE req.contentType
      parsed == JsonParse(req.body)
  IN IF StartsWith(ct, "application/json")
       THEN IF parsed.ok THEN [ok |-> TRUE, v |-> parsed.v]
            ELSE [ok |-> FALSE, v |-> Err("SyntaxError", "")]
     ELSE IF StartsWith(ct, "application/x-www-form-urlencoded")
       THEN [ok |-> TRUE, v |-> FormData(req.body)]
     ELSE [ok |-> TRUE, v |-> Str(req.body)]

\* currentUserChecker(request): the default resolves to undefined, the one the
\* tests install to the x-user header
CheckUser(checker, req) == IF checker = "header" THEN req.user ELSE Undefined

\* contentType(extension) of std/media_types; "" is undefined
ContentType(extension) ==
  CASE extension = "json" -> "application/json; charset=UTF-8"
    [] extension = "html" -> "text/html; charset=UTF-8"
    [] extension = "text" -> "text/plain; charset=UTF-8"
    [] extension = "txt" -> "text/plain; charset=UTF-8"
    [] extension = "bin" -> "application/octet-stream"
    [] extension = "png" -> "image/png"
    [] extension = "pdf" -> "application/pdf"
    [] OTHER -> ""

\* a character a tag name may hold: [-_.A-Za-z0-9]
IsTagChar(c) ==
  Place(LowerLetters, c) > 0 \/ Place(UpperLetters, c) > 0 \/ IsDigit(c) \/ c \in {"-", "_", "."}

\* /(<[-_.A-Za-z0-9]+).+>/i.test(body)
isHTML(body) ==
  \E i \in 1..Len(body) :
    /\ CharAt(body, i) = "<"
    /\ i + 1 <= Len(body) /\ IsTagChar(CharAt(body, i + 1))
    /\ \E j \in (i + 3)..Len(body) :
         /\ CharAt(body, j) = ">"
         /\ \A k \in (i + 2)..(j - 1) : CharAt(body, k) # "\n"

\* JSON.stringify(value), kept as the value the text tells; undefined gives no text
JsonText(value) == IF value = Undefined THEN Undefined ELSE [t |-> "json", v |-> value]

\* JSON.stringify(ex) of a thrown error: the errors of Deno.errors own their
\* name, the built-in ones own no enumerable property
DenoErrors ==
  {"AlreadyExists", "InvalidData", "NotFound", "NotSupported", "PermissionDenied",
   "BadResource"}
\* a serialization that finds no property in any error
ErrorJsonOwnNothing(ex) == JsonText(Obj(<<>>))

ErrorJson(ex) ==
  JsonText(Obj(IF ex.name \in DenoErrors THEN [name |-> Str(ex.name)] ELSE <<>>))

\* the chain without its last test
StatusOfWithoutUnauthorized(ex) ==
  LET s0 == 500
      s1 == IF ex.name = "AlreadyExists" THEN 409 ELSE s0
      s2 == IF ex.name = "InvalidData" THEN 400 ELSE s1
      s3 == IF ex.name = "NotFound" THEN 404 ELSE s2
  IN IF ex.name = "NotSupported" THEN 501 ELSE s3

\* the chain of instanceof tests of the catch clause
StatusOf(ex) ==
  LET s0 == 500
      s1 == IF ex.name = "AlreadyExists" THEN 409 ELSE s0
      s2 == IF ex.name = "InvalidData" THEN 400 ELSE s1
      s3 == IF ex.name = "NotFound" THEN 404 ELSE s2
      s4 == IF ex.name = "NotSupported" THEN 501 ELSE s3
  IN IF ex.name = "PermissionDenied" THEN 401 ELSE s4

\* the response of the catch clause
ErrorResponse(ex) == Response(StatusOf(ex), ContentType("json"), ErrorJson(ex), "grout")

\* the 405 of a path that routes of other methods match
MethodNotAllowed(method) ==
  Response(405, ContentType("json"),
           JsonText(Obj([message |-> Str("A route exists for this URL, but not for method '"
                                         \o method \o "'")])), "grout")

\* what follows the handler's value in the try block, without the test for a
\* Response
WrapBody(body, extension) ==
  IF Truthy(extension)
    THEN Response(200, IF ContentType(extension.v) # "" THEN ContentType(extension.v)
                       ELSE extension.v, body, "grout")
  ELSE IF TypeOf(body) = "string"
    THEN Response(200, ContentType(IF isHTML(body.v) THEN "html" ELSE "text"), body, "grout")
  ELSE IF body.t = "ArrayBuffer" THEN Response(200, ContentType("bin"), body, "grout")
  ELSE Response(200, ContentType("json"), JsonText(body), "grout")

\* the same with a Response treated like any other value
BuildResponseNoPassThrough(body, extension) == WrapBody(body, extension)

\* what follows the handler's value in the try block
BuildResponse(body, extension) ==
  IF body.t = "Response" THEN body ELSE WrapBody(body, extension)

(***************************************************************************)
(* The inputs of the model                                                 *)
(***************************************************************************)

\* the most records the users database holds: post is not taken beyond it
MaxUsers == 4

Get(path, query, user) == Request("GET", path, query, user, "", "")

UsersRequests ==
  { Get("/users/1", <<>>, Undefined),
    Get("/users/9", <<>>, Undefined),
    Get("/users/abc", <<>>, Undefined),
    Get("/users/5abc", <<>>, Undefined),
    Get("/users/1/async", <<>>, Undefined),
    Get("/users/1.5/async", <<>>, Undefined),
    Get("/users/1/avatar.png", <<>>, Undefined),
    Get("/users/9/avatar.png", <<>>, Undefined),
    Get("/users/pgp", <<>>, Undefined),
    Get("/users/find", <<Pair("name", "root")>>, Undefined),
    Get("/users/admins", <<>>, Undefined),
    Get("/users/admins", <<>>, Str("root")),
    Get("/users", <<Pair("sort", "true")>>, Undefined),
    Get("/nothing", <<>>, Undefined),
    Request("DELETE", "/users/2", <<>>, Undefined, "", ""),
    Request("PUT", "/users", <<>>, Undefined, "", ""),
    Request("POST", "/users", <<>>, Undefined, "", "{\"name\":\"Ann\"}"),
    Request("POST", "/users", <<>>, Undefined, "", "null"),
    Request("POST", "/users", <<>>, Undefined, "", "{oops") }

DocsRequests ==
  { Get("/docs/echo", <<>>, Undefined),
    Get("/docs/echo", <<Pair("name", "\"bar\"")>>, Undefined),
    Get("/docs/page", <<Pair("page-size", "5")>>, Undefined),
    Get("/docs/page", <<Pair("pageSize", "x")>>, Undefined),
    Get("/docs/secret", <<>>, Undefined),
    Get("/docs/secret", <<>>, Str("root")),
    Get("/docs/secret", <<Pair("key", "k")>>, Str("root")),
    Get("/docs/raise", <<>>, Undefined),
    Get("/docs/raise", <<Pair("kind", "AlreadyExists")>>, Undefined),
    Get("/docs/raise", <<Pair("kind", "InvalidData")>>, Undefined),
    Get("/docs/raise", <<Pair("kind", "NotFound")>>, Undefined),
    Get("/docs/raise", <<Pair("kind", "NotSupported")>>, Undefined),
    Get("/docs/raise", <<Pair("kind", "PermissionDenied")>>, Undefined),
    Get("/docs/raise", <<Pair("kind", "BadResource")>>, Undefined),
    Get("/docs/report.pdf", <<>>, Undefined),
    Get("/docs/blob", <<>>, Undefined),
    Get("/docs/html", <<>>, Undefined),
    Request("DELETE", "/docs/echo", <<>>, Undefined, "", "") }

PathsRequests ==
  { Get("/paths/admins", <<>>, Undefined),
    Get("/paths/7", <<>>, Undefined),
    Get("/paths/a/b", <<>>, Undefined),
    Get("/paths/a/c", <<>>, Undefined),
    Get("/paths/z/b", <<>>, Undefined),
    Get("/paths/z/c", <<>>, Undefined) }

\* requests under the declared base of the docs controller and under the
\* kebab-case of its class name
BasedRequests ==
  DocsRequests \cup
  { Get("/-docs-controller/echo", <<>>, Undefined),
    Get("/-docs-controller/secret", <<Pair("key", "k")>>, Str("root")),
    Request("DELETE", "/-docs-controller/echo", <<>>, Undefined, "", "") }

FieldsRequests ==
  { Get("/fields/ping", <<>>, Undefined),
    Get("/fields/hello", <<>>, Undefined),
    Get("/fields/hello", <<Pair("name", "x")>>, Undefined),
    Get("/fields/echo", <<>>, Undefined),
    Get("/fields/me", <<>>, Undefined),
    Get("/fields/me", <<>>, Str("root")),
    Get("/fields/hello", <<Pair("name", "y")>>, Undefined),
    Get("/fields/echo", <<Pair("name", "bar")>>, Undefined),
    Get("/fields/echo", <<Pair("name", "x")>>, Undefined),
    Get("/fields/me", <<>>, Str("John")),
    Get("/fields", <<>>, Undefined),
    Get("/fields/echo", <<Pair("$user", "")>>, Undefined),
    Get("/fields/echo", <<Pair("$user", "x")>>, Undefined),
    Get("/fields/echo", <<Pair("$body", "")>>, Undefined),
    Get("/fields/none", <<>>, Undefined),
    Request("PUT", "/fields/echo", <<>>, Undefined, "", ""),
    Request("POST", "/fields/hello", <<>>, Undefined, "", ""),
    Request("DELETE", "/fields/ping", <<>>, Undefined, "", "") }

DefaultsRequests ==
  { Get("/defaults/list", <<>>, Undefined),
    Get("/defaults/list", <<Pair("tags", "[3]")>>, Undefined),
    Get("/defaults/list", <<Pair("tags", "7")>>, Undefined),
    Get("/defaults/list", <<Pair("tags", "x")>>, Undefined),
    Get("/defaults/list", <<Pair("tags", "[]")>>, Undefined),
    Get("/defaults/list", <<Pair("tags", "\"a\"")>>, Undefined),
    Get("/defaults/none", <<>>, Undefined),
    Request("DELETE", "/defaults/list", <<>>, Undefined, "", "") }

\* requests on the users fixture that differ in how they supply a parameter:
\* by capture and by query, as text of every kind, by a body of every content
\* type, under a reserved name
ParamsRequests ==
  { Get("/users/1", <<>>, Undefined),
    Get("/users/1", <<Pair("id", "2")>>, Undefined),
    Get("/users", <<Pair("sort", "true"), Pair("sort", "false")>>, Undefined),
    Get("/users", <<Pair("sort", "false")>>, Undefined),
    Get("/users", <<Pair("sort", "maybe")>>, Undefined),
    Get("/users/multiple", <<Pair("ids", "[2,3]")>>, Undefined),
    Get("/users/multiple", <<Pair("ids", "x")>>, Undefined),
    Get("/users/admins", <<Pair("$user", "root")>>, Undefined),
    Get("/users/admins", <<Pair("$user", "root")>>, Str("John")),
    Request("DELETE", "/users/9", <<>>, Undefined, "", "{oops"),
    Request("PATCH", "/users/1", <<>>, Undefined, "", "{\"name\":\"John\"}"),
    Request("PATCH", "/users/1", <<Pair("$body", "x")>>, Undefined,
            "application/json; charset=UTF-8", "{\"name\":\"John\"}"),
    Request("PATCH", "/users/1", <<>>, Undefined,
            "application/x-www-form-urlencoded", "name=John&admin=false"),
    Request("PATCH", "/users/1", <<>>, Undefined, "application/json", "{oops"),
    Request("PATCH", "/users/1", <<>>, Undefined, "text/plain;charset=UTF-8", "hi") }

\* requests on the users fixture that stay in flight: one whose handler's
\* promise is pending, one that waits for the user, one that waits for the
\* body, beside one that ends at once
InFlightRequests ==
  { Get("/users/1", <<>>, Undefined),
    Get("/users/1/async", <<>>, Undefined),
    Get("/users/admins", <<>>, Str("root")),
    Request("POST", "/users", <<>>, Undefined, "", "{\"id\":1}") }

\* requests on the reserved controller, with and without a query entry or a
\* capture named as the parameter handle fills in
ReservedRequests ==
  { Get("/reserved/me", <<>>, Str("John")),
    Get("/reserved/me", <<>>, Undefined),
    Get("/reserved/none", <<Pair("$user", "root")>>, Str("John")),
    Get("/reserved/me", <<Pair("$user", "root")>>, Str("John")),
    Get("/reserved/me", <<Pair("$user", "root")>>, Undefined),
    Get("/reserved/raw", <<>>, Undefined),
    Get("/reserved/raw", <<Pair("$request", "x")>>, Undefined),
    Request("PUT", "/reserved/root", <<>>, Str("John"), "", ""),
    Request("PUT", "/reserved/root", <<>>, Undefined, "", ""),
    Request("POST", "/reserved/note", <<Pair("$body", "x")>>, Undefined,
            "application/json", "{\"name\":\"John\"}"),
    Request("POST", "/reserved/note", <<>>, Undefined, "text/plain;charset=UTF-8", "hi"),
    Request("PATCH", "/reserved/all",
            <<Pair("$body", "x"), Pair("$user", "root"), Pair("$request", "y")>>,
            Str("John"), "application/x-www-form-urlencoded", "name=John&admin=false") }

\* requests on the paths controller under two prefixes
VariedRequests ==
  { Get(prefix \o path, <<>>, Undefined) :
      prefix \in {"/paths", "/v2"}, path \in {"/7", "/admins", "/a/b"} }

\* the requests a controller is handed
Requests(c) ==
  CASE c = "users" -> UsersRequests
    [] c = "docs" -> DocsRequests
    [] c = "paths" -> PathsRequests
    [] c = "based" -> BasedRequests
    [] c = "fields" -> FieldsRequests
    [] c = "defaults" -> DefaultsRequests
    [] c = "params" -> ParamsRequests
    [] c = "shared" -> InFlightRequests
    [] c = "varied" -> VariedRequests
    [] c = "reserved" -> ReservedRequests

\* how the application serves its controllers: the fileName and prefix
\* arguments it passes to handle for each; every controller at the path of its
\* name, the schemas all from the source text or all from the declaring files
ServeAll(ids, fromFiles) ==
  [c \in ids |->
     [fileName |-> IF fromFiles THEN c \o ".controller.ts" ELSE "", prefix |-> "/" \o c]]

Serve(fromFiles) == ServeAll(CtrlIds, fromFiles)

Servers == {Serve(FALSE), Serve(TRUE)}

\* the user resolvers setCurrentUserChecker is given
Checkers == {"default", "header"}

(***************************************************************************)
(* State                                                                   *)
(***************************************************************************)

VARIABLES
  controllers,         \* the controller instances
  served,              \* the arguments the application passes to handle
  cache,               \* const cache: per controller, its routes once extracted
  getParameters,       \* let getParameters: the strategy handle installed last
  currentUserChecker,  \* let currentUserChecker
  users,               \* const users of the fixture: its database
  disp,                \* the calls of handle, each at its place in handleOne
  returned,            \* per controller, the first and the last route list that
                       \* extractRoutes returned, and whether a later call scanned
  call                 \* a call of one of the pure functions of the library: its
                       \* arguments and, once it has returned, its result

vars ==
  <<controllers, served, cache, getParameters, currentUserChecker, users, disp, returned, call>>

\* no call of a pure function
NoCall == [fn |-> "", done |-> FALSE]

\* no route: matchRoute returned undefined
NoRoute == [pathname |-> "", method |-> "", handler |-> "", schema |-> NoSchema]

\* the result of handle: none yet, a response, undefined, or a rejected promise
NoOutcome == [kind |-> "none", v |-> Undefined]
Responds(response) == [kind |-> "response", v |-> response]
Unhandled == [kind |-> "unhandled", v |-> Undefined]
Rejects(error) == [kind |-> "rejected", v |-> error]

\* a call of handle that has not started
Idle ==
  [pc |-> "idle", ctrl |-> "", req |-> Get("", <<>>, Undefined), route |-> NoRoute,
   bag |-> <<>>, extension |-> Undefined, checked |-> FALSE, invoked |-> FALSE, args |-> <<>>,
   result |-> Return(Undefined, <<>>), out |-> NoOutcome, before |-> <<>>]

Slots == {"a"}

NothingReturned ==
  [set |-> FALSE, first |-> <<>>, last |-> <<>>, rescanned |-> FALSE, threw |-> FALSE]

\* the record of one call of extractRoutes in returned: set once a call has
\* returned, with the list of the first and of the last return; rescanned once
\* a call after the first return has scanned the members; threw when the last
\* call threw
Note(ret, r) ==
  IF r.threw THEN [ret EXCEPT !.threw = TRUE, !.rescanned = @ \/ (ret.set /\ r.scanned)]
  ELSE IF ~ret.set
    THEN [set |-> TRUE, first |-> r.routes, last |-> r.routes, rescanned |-> FALSE,
          threw |-> FALSE]
  ELSE [ret EXCEPT !.last = r.routes, !.rescanned = @ \/ r.scanned, !.threw = FALSE]

Init ==
  /\ controllers = [c \in CtrlIds |-> IF c = "users" THEN UsersController ELSE DocsController]
  /\ served \in Servers
  /\ cache = [c \in CtrlIds |-> NoEntry]
  /\ getParameters = Strategy("unset", "")
  /\ currentUserChecker = "default"
  /\ users = InitialUsers
  /\ disp = [s \in Slots |-> Idle]
  /\ returned = [c \in CtrlIds |-> NothingReturned]
  /\ call = NoCall

(***************************************************************************)
(* handleOne, cut at its awaits                                            *)
(***************************************************************************)

\* a user check that lets every request through
UserCheckSkipped(bag) == FALSE

\* "$user" in requestParameters && !requestParameters.$user
UserCheckFails(bag) == "$user" \in DOMAIN bag /\ ~Truthy(bag["$user"])

\* the try block up to the await of the handler's value: the user check,
\* validate, the call.  Gives the call of handle afterwards and the database.
TryBlock(d, className, db) ==
  LET called(args, r) ==
        [d |-> [d EXCEPT !.pc = IF r.kind = "throw" THEN "done" ELSE "call",
                         !.checked = TRUE, !.invoked = TRUE, !.args = args,
                         !.result = [r EXCEPT !.users = <<>>], !.before = db,
                         !.out = IF r.kind = "throw" THEN Responds(ErrorResponse(r.v))
                                 ELSE NoOutcome],
         users |-> r.users]
      caught(ex) ==
        [d |-> [d EXCEPT !.pc = "done", !.checked = TRUE, !.out = Responds(ErrorResponse(ex))],
         users |-> db]
      validated(v) ==
        IF ~v.ok THEN caught(v.error)
        ELSE called(v.args, Invoke(className, d.route.handler, v.args, db))
  IN IF UserCheckFails(d.bag) THEN caught(Err("PermissionDenied", ""))
     ELSE validated(validate(d.bag, d.route.schema.properties))

\* from the match to the first await that suspends
AfterMatch(d, className, db) ==
  IF HasProperty(d.route.schema.properties, "$body")
    THEN [d |-> [d EXCEPT !.pc = "body"], users |-> db]
  ELSE IF HasProperty(d.route.schema.properties, "$user")
    THEN [d |-> [d EXCEPT !.pc = "user"], users |-> db]
  ELSE TryBlock(d, className, db)

\* from the body read to the next await that suspends
AfterBody(d, className, db) ==
  LET decoded(body) ==
        IF ~body.ok THEN [d |-> [d EXCEPT !.pc = "done", !.out = Rejects(body.v)], users |-> db]
        ELSE IF HasProperty(d.route.schema.properties, "$user")
          THEN [d |-> [d EXCEPT !.pc = "user", !.bag = Put(@, "$body", body.v)], users |-> db]
        ELSE TryBlock([d EXCEPT !.bag = Put(@, "$body", body.v)], className, db)
  IN decoded(DecodeBody(d.req))

\* a user step that keeps a $user the request supplied itself
AfterUserKeeping(d, className, checker, db) ==
  TryBlock([d EXCEPT !.bag = IF "$user" \in DOMAIN @ THEN @
                              ELSE Put(@, "$user", CheckUser(checker, d.req))],
           className, db)

\* from the user resolver's value on
AfterUser(d, className, checker, db) ==
  TryBlock([d EXCEPT !.bag = Put(@, "$user", CheckUser(checker, d.req))], className, db)

\* handleOne up to its first return or suspending await: what it does with the
\* routes, the cache entry and the record of extractRoutes' calls
handleOne(c, controller, req, prefix, entry, strategy, ret, db) ==
  LET base == IF prefix = "" THEN "/" \o kebabCase(controller.className) ELSE prefix
      d == [Idle EXCEPT !.ctrl = c, !.req = req]
      ends(e, out, noted) ==
        [d |-> [d EXCEPT !.pc = "done", !.out = out],
         entry |-> e.entry, returned |-> noted, users |-> db]
      continues(e, a) ==
        [d |-> a.d, entry |-> e.entry, returned |-> Note(ret, e), users |-> a.users]
      \* countRoutes
      counted(e1, e2) ==
        IF e2.threw THEN ends(e2, Rejects(e2.error), Note(Note(ret, e1), e2))
        ELSE ends(e2, IF countRoutes(e2.routes, req.path) > 0
                      THEN Responds(MethodNotAllowed(req.method)) ELSE Unhandled,
                  Note(Note(ret, e1), e2))
      routed(e1, route) ==
        \* route.schema.properties of an undefined schema
        IF ~route.schema.defined
        THEN [d |-> [d EXCEPT !.pc = "done", !.route = route, !.out = Rejects(Err("TypeError", ""))],
              entry |-> e1.entry, returned |-> Note(ret, e1), users |-> db]
        ELSE continues(e1, AfterMatch([d EXCEPT !.route = route,
                                                !.bag = RequestParameters(route, req),
                                                !.extension = Extension(req.path)],
                                      controller.className, db))
      matched(e1, m) ==
        IF m = 0 THEN counted(e1, extractRoutes(controller, base, e1.entry, strategy))
        ELSE routed(e1, e1.routes[m])
      \* matchRoute
      extracted(e1) ==
        IF e1.threw THEN ends(e1, Rejects(e1.error), Note(ret, e1))
        ELSE matched(e1, matchRoute(e1.routes, req.method, req.path))
  IN extracted(extractRoutes(controller, base, entry, strategy))

(***************************************************************************)
(* Actions                                                                 *)
(***************************************************************************)

\* setCurrentUserChecker(cuc)
SetCurrentUserChecker(cuc) ==
  /\ currentUserChecker' = cuc
  /\ UNCHANGED <<call, controllers, served, cache, getParameters, users, disp, returned>>

\* extractRoutes(controller), called by the application itself; base is
\* controller.base
ExtractRoutesCall(c) ==
  \E r \in {extractRoutes(controllers[c],
                          IF controllers[c].base = "" THEN "undefined" ELSE controllers[c].base,
                          cache[c], getParameters)} :
    /\ cache' = [cache EXCEPT ![c] = r.entry]
    /\ returned' = [returned EXCEPT ![c] = Note(@, r)]
    /\ UNCHANGED <<call, controllers, served, getParameters, currentUserChecker, users, disp>>

\* handle(controller, request, fileName, prefix), up to its first suspension
Handle(s, c, req) ==
  /\ disp[s].pc \in {"idle", "done"}
  /\ getParameters' = Strategy(IF served[c].fileName = "" THEN "source" ELSE "ast",
                               served[c].fileName)
  /\ \E h \in {handleOne(c, controllers[c], req, served[c].prefix, cache[c], getParameters',
                         returned[c], users)} :
       /\ Len(h.users) <= MaxUsers
       /\ cache' = [cache EXCEPT ![c] = h.entry]
       /\ returned' = [returned EXCEPT ![c] = h.returned]
       /\ users' = h.users
       /\ disp' = [disp EXCEPT ![s] = h.d]
  /\ UNCHANGED <<call, controllers, served, currentUserChecker>>

\* the body has been read
BodyRead(s) ==
  /\ disp[s].pc = "body"
  /\ \E a \in {AfterBody(disp[s], controllers[disp[s].ctrl].className, users)} :
       /\ Len(a.users) <= MaxUsers
       /\ disp' = [disp EXCEPT ![s] = a.d]
       /\ users' = a.users
  /\ UNCHANGED <<call, controllers, served, cache, getParameters, currentUserChecker, returned>>

\* the user resolver has answered
UserResolved(s) ==
  /\ disp[s].pc = "user"
  /\ \E a \in {AfterUser(disp[s], controllers[disp[s].ctrl].className,
                         currentUserChecker, users)} :
       /\ Len(a.users) <= MaxUsers
       /\ disp' = [disp EXCEPT ![s] = a.d]
       /\ users' = a.users
  /\ UNCHANGED <<call, controllers, served, cache, getParameters, currentUserChecker, returned>>

\* the handler's value is there: the rest of the try block, or the catch clause
HandlerSettled(s) ==
  LET d == disp[s]
      final == IF d.result.kind = "pending"
               THEN SettleUsers(d.route.handler, d.args, users)
               ELSE [d.result EXCEPT !.users = users]
  IN /\ d.pc = "call"
     /\ disp' = [disp EXCEPT ![s] =
          [d EXCEPT !.pc = "done",
                    !.result = [final EXCEPT !.users = <<>>],
                    !.out = IF final.kind = "throw" THEN Responds(ErrorResponse(final.v))
                            ELSE Responds(BuildResponse(final.v, d.extension))]]
     /\ users' = final.users
     /\ UNCHANGED <<call, controllers, served, cache, getParameters, currentUserChecker, returned>>

Next ==
  \/ \E cuc \in Checkers : SetCurrentUserChecker(cuc)
  \/ \E c \in CtrlIds : ExtractRoutesCall(c)
  \/ \E s \in DOMAIN disp, c \in CtrlIds : \E req \in Requests(c) : Handle(s, c, req)
  \/ \E s \in DOMAIN disp : BodyRead(s)
  \/ \E s \in DOMAIN disp : UserResolved(s)
  \/ \E s \in DOMAIN disp : HandlerSettled(s)

Spec == Init /\ [][Next]_vars

(***************************************************************************)
(* The same dispatcher over one controller whose members are declared in   *)
(* every order.                                                            *)
(***************************************************************************)

\* the orders in which the members of a class may be declared: the
\* constructor, then the other members in any order
Orders(names) ==
  LET members == {names[i] : i \in 2..Len(names)}
      perms == {f \in [1..Cardinality(members) -> members] :
                  \A i, j \in 1..Cardinality(members) : f[i] = f[j] => i = j}
  IN {<<names[1]>> \o f : f \in perms}

OrderInit ==
  /\ controllers \in {[c \in {"paths"} |-> [PathsController EXCEPT !.names = order]] :
                        order \in Orders(PathsController.names)}
  /\ served = ServeAll({"paths"}, FALSE)
  /\ cache = [c \in {"paths"} |-> NoEntry]
  /\ getParameters = Strategy("unset", "")
  /\ currentUserChecker = "default"
  /\ users = InitialUsers
  /\ disp = [s \in Slots |-> Idle]
  /\ returned = [c \in {"paths"} |-> NothingReturned]
  /\ call = NoCall

OrderNext ==
  \/ \E s \in DOMAIN disp, c \in DOMAIN controllers : \E req \in Requests(c) : Handle(s, c, req)
  \/ \E s \in DOMAIN disp : HandlerSettled(s)

OrderSpec == OrderInit /\ [][OrderNext]_vars

(***************************************************************************)
(* The library alone: its pure functions called on values drawn from      *)
(* bounded sets.                                                           *)
(***************************************************************************)

\* the state of the module once loaded, no controller made and no request
\* handled
Loaded ==
  /\ controllers = <<>>
  /\ served = <<>>
  /\ cache = <<>>
  /\ getParameters = Strategy("unset", "")
  /\ currentUserChecker = "default"
  /\ users = <<>>
  /\ disp = <<>>
  /\ returned = <<>>

\* the longest array and the most keys of a record typeOf is given
MaxArrayLen == 2
MaxKeys == 2

TypeScalars == {Undefined, Null, Num(1), Str("a"), Bool(TRUE), Symbol, Instance("Date")}

TypeKeys == {"a", "a1", "b"}

TypeRecords ==
  {Obj(f) : f \in UNION {[S -> {Num(1), Str("x")}] :
                           S \in {T \in SUBSET TypeKeys : Cardinality(T) <= MaxKeys}}}

TypeElements ==
  {Num(1), Str("a"), Undefined, Instance("Date"), Arr(<<Symbol>>), Obj([a |-> Num(1)])}

TypeArrays == {Arr(q) : q \in UNION {[1..n -> TypeElements] : n \in 0..MaxArrayLen}}

TypeValues == TypeScalars \cup TypeRecords \cup TypeArrays

TypeInit ==
  /\ Loaded
  /\ call \in {[fn |-> "typeOf", value |-> v, useFullTypes |-> f, done |-> FALSE,
                 result |-> ""] : v \in TypeValues, f \in BOOLEAN}

\* typeOf(value, useFullTypes)
TypeOfCall ==
  /\ call.fn = "typeOf" /\ ~call.done
  /\ call' = [call EXCEPT !.done = TRUE, !.result = typeOf(call.value, call.useFullTypes)]
  /\ UNCHANGED <<controllers, served, cache, getParameters, currentUserChecker, users, disp,
                 returned>>

TypeNext == TypeOfCall

TypeSpec == TypeInit /\ [][TypeNext]_vars

\* the most path tokens of a member name
MaxTokens == 2

\* member names written by the documented grammar: a method or another word,
\* path tokens and captures, and an extension or none
RECURSIVE TokenTails(_)
TokenTails(n) ==
  IF n = 0 THEN {""}
  ELSE TokenTails(n - 1) \cup
       {t \o "_" \o token : t \in {u \in TokenTails(n - 1) : CountChar(u, "_") = n - 1},
                            token \in {"$id", "avatar", "$key"}}

MemberNames ==
  {word \o tail \o ext : word \in {"get", "post", "find"}, tail \in TokenTails(MaxTokens),
                         ext \in {"", "$$png"}}

\* a controller with the base /m and that one method
NamedController(name) ==
  [className |-> "NamedController", base |-> "/m", file |-> "named.controller.ts",
   names |-> << Method("constructor", "class NamedController { }", <<>>),
                Method(name, name \o "() { }", <<>>),
                DataProperty("base") >>]

\* extractRoutes on such a controller, a handle without fileName having set
\* getParameters before
NameInit ==
  /\ controllers \in {[c \in {"named"} |-> NamedController(name)] : name \in MemberNames}
  /\ served = ServeAll({"named"}, FALSE)
  /\ cache = [c \in {"named"} |-> NoEntry]
  /\ getParameters = Strategy("source", "")
  /\ currentUserChecker = "default"
  /\ users = <<>>
  /\ disp = <<>>
  /\ returned = [c \in {"named"} |-> NothingReturned]
  /\ call = NoCall

NameNext == \E c \in DOMAIN controllers : ExtractRoutesCall(c)

NameSpec == NameInit /\ [][NameNext]_vars

(***************************************************************************)
(* handle(controller, request) and handle(controller, request, fileName),  *)
(* without prefix, on a controller that declares its base; the application *)
(* may also call extractRoutes(controller) itself.                         *)
(***************************************************************************)

BasedInit ==
  /\ controllers = [c \in {"based"} |-> DocsController]
  /\ served \in {[c \in {"based"} |-> [fileName |-> f, prefix |-> ""]] :
                   f \in {"", "docs.controller.ts"}}
  /\ cache = [c \in {"based"} |-> NoEntry]
  /\ getParameters = Strategy("unset", "")
  /\ currentUserChecker = "default"
  /\ users = <<>>
  /\ disp = [s \in Slots |-> Idle]
  /\ returned = [c \in {"based"} |-> NothingReturned]
  /\ call = NoCall

BasedNext ==
  \/ \E cuc \in Checkers : SetCurrentUserChecker(cuc)
  \/ \E c \in DOMAIN controllers : ExtractRoutesCall(c)
  \/ \E s \in DOMAIN disp, c \in DOMAIN controllers : \E req \in Requests(c) : Handle(s, c, req)
  \/ \E s \in DOMAIN disp : UserResolved(s)
  \/ \E s \in DOMAIN disp : HandlerSettled(s)

BasedSpec == BasedInit /\ [][BasedNext]_vars

(***************************************************************************)
(* A controller with function fields, its schemas read from the source     *)
(* text or from its declaring file.                                        *)
(***************************************************************************)

FieldsInit ==
  /\ controllers = [c \in {"fields"} |-> FieldsController]
  /\ served \in {ServeAll({"fields"}, fromFiles) : fromFiles \in BOOLEAN}
  /\ cache = [c \in {"fields"} |-> NoEntry]
  /\ getParameters = Strategy("unset", "")
  /\ currentUserChecker = "default"
  /\ users = <<>>
  /\ disp = [s \in Slots |-> Idle]
  /\ returned = [c \in {"fields"} |-> NothingReturned]
  /\ call = NoCall

FieldsNext ==
  \/ \E cuc \in Checkers : SetCurrentUserChecker(cuc)
  \/ \E c \in DOMAIN controllers : ExtractRoutesCall(c)
  \/ \E s \in DOMAIN disp, c \in DOMAIN controllers : \E req \in Requests(c) : Handle(s, c, req)
  \/ \E s \in DOMAIN disp : UserResolved(s)
  \/ \E s \in DOMAIN disp : HandlerSettled(s)

FieldsSpec == FieldsInit /\ [][FieldsNext]_vars

(***************************************************************************)
(* Controllers whose handler declares a default value of every kind, the   *)
(* schemas read from the source text or from the declaring file.           *)
(***************************************************************************)

DefaultsInit ==
  /\ \E i \in DOMAIN DefaultTexts :
       /\ controllers = [c \in {"defaults"} |-> DefaultsController(i)]
       /\ served \in {[c \in {"defaults"} |-> [fileName |-> f, prefix |-> "/defaults"]] :
                        f \in {"", DefaultsFile(i)}}
  /\ cache = [c \in {"defaults"} |-> NoEntry]
  /\ getParameters = Strategy("unset", "")
  /\ currentUserChecker = "default"
  /\ users = <<>>
  /\ disp = [s \in Slots |-> Idle]
  /\ returned = [c \in {"defaults"} |-> NothingReturned]
  /\ call = NoCall

DefaultsNext ==
  \/ \E s \in DOMAIN disp, c \in DOMAIN controllers : \E req \in Requests(c) : Handle(s, c, req)
  \/ \E s \in DOMAIN disp : HandlerSettled(s)

DefaultsSpec == DefaultsInit /\ [][DefaultsNext]_vars

(***************************************************************************)
(* The users fixture under requests that supply its parameters in every    *)
(* way.                                                                    *)
(***************************************************************************)

ParamsInit ==
  /\ controllers = [c \in {"params"} |-> UsersController]
  /\ served \in {[c \in {"params"} |-> [fileName |-> f, prefix |-> "/users"]] :
                   f \in {"", "users.controller.ts"}}
  /\ cache = [c \in {"params"} |-> NoEntry]
  /\ getParameters = Strategy("unset", "")
  /\ currentUserChecker = "default"
  /\ users = InitialUsers
  /\ disp = [s \in Slots |-> Idle]
  /\ returned = [c \in {"params"} |-> NothingReturned]
  /\ call = NoCall

ParamsNext ==
  \/ \E cuc \in Checkers : SetCurrentUserChecker(cuc)
  \/ \E s \in DOMAIN disp, c \in DOMAIN controllers : \E req \in Requests(c) : Handle(s, c, req)
  \/ \E s \in DOMAIN disp : BodyRead(s)
  \/ \E s \in DOMAIN disp : UserResolved(s)
  \/ \E s \in DOMAIN disp : HandlerSettled(s)

ParamsSpec == ParamsInit /\ [][ParamsNext]_vars

(***************************************************************************)
(* Two calls of handle in flight at once on one controller: each runs up   *)
(* to its next await, and the other may run in between.                    *)
(***************************************************************************)

ConcurrentSlots == {"a", "b"}

ConcurrentInit ==
  /\ controllers = [c \in {"shared"} |-> UsersController]
  /\ served \in {[c \in {"shared"} |-> [fileName |-> f, prefix |-> "/users"]] :
                   f \in {"", "users.controller.ts"}}
  /\ cache = [c \in {"shared"} |-> NoEntry]
  /\ getParameters = Strategy("unset", "")
  /\ currentUserChecker = "header"
  /\ users = InitialUsers
  /\ disp = [s \in ConcurrentSlots |-> Idle]
  /\ returned = [c \in {"shared"} |-> NothingReturned]
  /\ call = NoCall

ConcurrentNext ==
  \/ \E s \in DOMAIN disp, c \in DOMAIN controllers : \E req \in Requests(c) : Handle(s, c, req)
  \/ \E s \in DOMAIN disp : BodyRead(s)
  \/ \E s \in DOMAIN disp : UserResolved(s)
  \/ \E s \in DOMAIN disp : HandlerSettled(s)

ConcurrentSpec == ConcurrentInit /\ [][ConcurrentNext]_vars

(***************************************************************************)
(* One controller handed to handle with a fileName and a prefix that vary   *)
(* from call to call; served holds those of the last call.                 *)
(***************************************************************************)

VariedArguments ==
  {[fileName |-> f, prefix |-> p] : f \in {"", "paths.controller.ts"}, p \in {"/paths", "/v2"}}

VariedInit ==
  /\ controllers = [c \in {"varied"} |-> PathsController]
  /\ served \in {[c \in {"varied"} |-> args] : args \in VariedArguments}
  /\ cache = [c \in {"varied"} |-> NoEntry]
  /\ getParameters = Strategy("unset", "")
  /\ currentUserChecker = "default"
  /\ users = <<>>
  /\ disp = [s \in Slots |-> Idle]
  /\ returned = [c \in {"varied"} |-> NothingReturned]
  /\ call = NoCall

\* handle(controller, request, fileName, prefix) with arguments of its own
HandleWith(s, c, req, args) ==
  /\ disp[s].pc \in {"idle", "done"}
  /\ served' = [served EXCEPT ![c] = args]
  /\ getParameters' = Strategy(IF args.fileName = "" THEN "source" ELSE "ast", args.fileName)
  /\ \E h \in {handleOne(c, controllers[c], req, args.prefix, cache[c], getParameters',
                         returned[c], users)} :
       /\ cache' = [cache EXCEPT ![c] = h.entry]
       /\ returned' = [returned EXCEPT ![c] = h.returned]
       /\ users' = h.users
       /\ disp' = [disp EXCEPT ![s] = h.d]
  /\ UNCHANGED <<call, controllers, currentUserChecker>>

VariedNext ==
  \/ \E s \in DOMAIN disp, c \in DOMAIN controllers :
       \E req \in Requests(c), args \in VariedArguments : HandleWith(s, c, req, args)
  \/ \E s \in DOMAIN disp : HandlerSettled(s)

VariedSpec == VariedInit /\ [][VariedNext]_vars

(***************************************************************************)
(* The controller whose handlers declare $user, $body and $request.         *)
(***************************************************************************)

ReservedInit ==
  /\ controllers = [c \in {"reserved"} |-> ReservedController]
  /\ served \in {ServeAll({"reserved"}, fromFiles) : fromFiles \in BOOLEAN}
  /\ cache = [c \in {"reserved"} |-> NoEntry]
  /\ getParameters = Strategy("unset", "")
  /\ currentUserChecker = "default"
  /\ users = <<>>
  /\ disp = [s \in Slots |-> Idle]
  /\ returned = [c \in {"reserved"} |-> NothingReturned]
  /\ call = NoCall

ReservedNext ==
  \/ \E cuc \in Checkers : SetCurrentUserChecker(cuc)
  \/ \E s \in DOMAIN disp, c \in DOMAIN controllers : \E req \in Requests(c) : Handle(s, c, req)
  \/ \E s \in DOMAIN disp : BodyRead(s)
  \/ \E s \in DOMAIN disp : UserResolved(s)
  \/ \E s \in DOMAIN disp : HandlerSettled(s)

ReservedSpec == ReservedInit /\ [][ReservedNext]_vars

(***************************************************************************)
(* handle(controllers, request, fileName, prefix) on a Map of controllers *)
(* keyed by base path.  served is then one record: map, the entries of the *)
(* Map in insertion order, the global prefix and the fileName.             *)
(***************************************************************************)

\* handleMany's choice: the place in the Map of the entry it hands the request
\* to, 0 when it resolves to undefined
handleMany(map, globalPrefix, path) ==
  LET pn == From(path, Len(globalPrefix) + 1)
      hits == {i \in 1..Len(map) : StartsWith(pn, map[i].key)}
      first == CHOOSE i \in hits : \A j \in hits : i <= j
  IN IF ~StartsWith(path, globalPrefix) THEN 0
     ELSE IF hits = {} THEN 0
     ELSE IF map[first].key = "" THEN 0
     ELSE first

\* the two orders in which the application may fill its Map
Maps ==
  { << [key |-> "/docs", ctrl |-> "docs"], [key |-> "/docs/v2", ctrl |-> "paths"] >>,
    << [key |-> "/docs/v2", ctrl |-> "paths"], [key |-> "/docs", ctrl |-> "docs"] >> }

ManyRequests ==
  { Request(method, g \o path, <<>>, Undefined, "", "") :
      method \in {"GET", "DELETE"}, g \in {"", "/api"},
      path \in {"/docs/echo", "/docs/v2/admins", "/docs/v2/7", "/other/x"} }

ManyInit ==
  /\ controllers = [c \in {"docs", "paths"} |->
                      IF c = "docs" THEN DocsController ELSE PathsController]
  /\ served \in {[map |-> map, prefix |-> g, fileName |-> ""] : map \in Maps, g \in {"", "/api"}}
  /\ cache = [c \in {"docs", "paths"} |-> NoEntry]
  /\ getParameters = Strategy("unset", "")
  /\ currentUserChecker = "default"
  /\ users = <<>>
  /\ disp = [s \in Slots |-> Idle]
  /\ returned = [c \in {"docs", "paths"} |-> NothingReturned]
  /\ call = NoCall

\* handle(controllers, request, fileName, prefix), up to its first suspension
HandleMany(s, req) ==
  /\ disp[s].pc \in {"idle", "done"}
  /\ getParameters' = Strategy(IF served.fileName = "" THEN "source" ELSE "ast",
                               served.fileName)
  /\ \E i \in {handleMany(served.map, served.prefix, req.path)} :
       IF i = 0
       THEN /\ disp' = [disp EXCEPT ![s] = [Idle EXCEPT !.pc = "done", !.req = req,
                                                        !.out = Unhandled]]
            /\ UNCHANGED <<cache, returned, users>>
       ELSE \E c \in {served.map[i].ctrl} :
              \E h \in {handleOne(c, controllers[c], req, served.prefix \o served.map[i].key,
                                   cache[c], getParameters', returned[c], users)} :
                /\ cache' = [cache EXCEPT ![c] = h.entry]
                /\ returned' = [returned EXCEPT ![c] = h.returned]
                /\ users' = h.users
                /\ disp' = [disp EXCEPT ![s] = h.d]
  /\ UNCHANGED <<call, controllers, served, currentUserChecker>>

ManyNext ==
  \/ \E s \in DOMAIN disp : \E req \in ManyRequests : HandleMany(s, req)
  \/ \E s \in DOMAIN disp : HandlerSettled(s)

ManySpec == ManyInit /\ [][ManyNext]_vars

(***************************************************************************)
(* Properties                                                              *)
(***************************************************************************)

\* the calls of handle that have started
Started == {s \in DOMAIN disp : disp[s].pc # "idle"}

\* the calls of handle that have ended
Ended == {s \in DOMAIN disp : disp[s].pc = "done"}

\* the call answered with a response of that status
Answered(d, status) == d.out.kind = "response" /\ d.out.v.status = status

\* the call answered with the error response of that status and error name
Failed(d, status, name) ==
  /\ Answered(d, status)
  /\ d.out.v.body = [t |-> "json", v |-> Obj([name |-> Str(name)])]

\* the routes the lookup of a call went through
RoutesOf(d) == cache[d.ctrl].routes

\* the places of the routes that match the request's method and path
Matching(d) ==
  {i \in 1..Len(RoutesOf(d)) :
     /\ RoutesOf(d)[i].method = d.req.method
     /\ PatternTest(RoutesOf(d)[i].pathname, d.req.path)}

\* the properties of the route of a call, and the raw value the request holds
\* for the k-th one: under its name, else under its kebab-case alias
Props(d) == d.route.schema.properties
Supplied(d, k) ==
  IF Lookup(d.bag, Props(d)[k].name) # Undefined THEN Lookup(d.bag, Props(d)[k].name)
  ELSE Lookup(d.bag, kebabCase(Props(d)[k].name))

\* C1: once extractRoutes has returned for a controller, every later call on
\* that controller returns the list of the first call, which is the cached one,
\* and no later call scans the controller's members again
C1_ExtractRoutesCached ==
  \A c \in DOMAIN returned :
    returned[c].set =>
      /\ returned[c].last = returned[c].first
      /\ cache[c] = Entry(returned[c].first)
      /\ ~returned[c].rescanned

\* C1 happens: the application extracted the routes of the users controller
\* under its own base, and a later handle under the base /users went through
\* extractRoutes twice (matchRoute and countRoutes) and got that list
C1_Witness ==
  \E s \in Ended :
    /\ disp[s].ctrl = "users"
    /\ disp[s].out = Unhandled
    /\ returned["users"].set
    /\ Len(returned["users"].first) > 0
    /\ StartsWith(returned["users"].first[1].pathname, "undefined")

\* the two pathnames have as many segments, and p has a literal segment at a
\* place where q has a capture
LiteralWhereCapture(p, q) ==
  /\ Len(Split(p, "/")) = Len(Split(q, "/"))
  /\ \E k \in 1..Len(Split(p, "/")) :
       ~SegmentParts(Split(p, "/")[k]).capture /\ SegmentParts(Split(q, "/")[k]).capture

\* p is q with a capture replaced by a literal segment, the rest being the same
Specializes(p, q) ==
  /\ LiteralWhereCapture(p, q)
  /\ \A k \in 1..Len(Split(p, "/")) :
       \/ Split(p, "/")[k] = Split(q, "/")[k]
       \/ ~SegmentParts(Split(p, "/")[k]).capture /\ SegmentParts(Split(q, "/")[k]).capture

\* C2, as stated: a request is never dispatched to a route when another route
\* of the same method matches it too and has a literal segment where the
\* dispatched one has a capture
C2_LiteralWhereCaptureFirst ==
  \A s \in Started :
    disp[s].route # NoRoute =>
      \A i \in Matching(disp[s]) :
        ~LiteralWhereCapture(RoutesOf(disp[s])[i].pathname, disp[s].route.pathname)

\* C2, amended: a request is never dispatched to a route when another route of
\* the same method matches it too and is that route with its capture replaced
\* by a literal segment, in whatever order the members are declared
C2_LiteralSpecializationFirst ==
  \A s \in Started :
    disp[s].route # NoRoute =>
      \A i \in Matching(disp[s]) :
        ~Specializes(RoutesOf(disp[s])[i].pathname, disp[s].route.pathname)

\* the place of the member of that name in the declaration order
DeclaredAt(c, name) ==
  CHOOSE i \in 1..Len(controllers[c].names) : controllers[c].names[i].name = name

\* C2 happens: /paths/admins went to get_admins although get_$id, which
\* matches it too, is declared before get_admins
C2_Witness ==
  \E s \in Started :
    /\ disp[s].ctrl = "paths"
    /\ disp[s].req.path = "/paths/admins"
    /\ disp[s].route.handler = "get_admins"
    /\ DeclaredAt("paths", "get_$id") < DeclaredAt("paths", "get_admins")

\* C3: the lookup of a call of handle ends in one of three ways: a route of the
\* request's method matches and the call goes to such a route; else a route of
\* another method matches the path and the call ends with a 405 that carries a
\* message; else the call ends with undefined
C3_LookupOutcomes ==
  \A s \in Started :
    LET d == disp[s]
    IN IF Matching(d) # {}
         THEN \E i \in Matching(d) : d.route = RoutesOf(d)[i]
       ELSE IF countRoutes(RoutesOf(d), d.req.path) > 0
         THEN /\ d.pc = "done" /\ d.route = NoRoute /\ ~d.invoked
              /\ Answered(d, 405)
              /\ d.out.v.body.t = "json" /\ "message" \in DOMAIN d.out.v.body.v.v
       ELSE d.pc = "done" /\ d.route = NoRoute /\ ~d.invoked /\ d.out = Unhandled

\* C3 happens: PUT /users, a path that only routes of other methods match,
\* ended with 405
C3_Witness ==
  \E s \in Ended :
    /\ disp[s].req.method = "PUT" /\ disp[s].req.path = "/users"
    /\ Matching(disp[s]) = {}
    /\ Answered(disp[s], 405)

\* the failure a call raised in its try block: none, or the error
Raised(d) ==
  IF ~d.checked THEN Undefined
  ELSE IF "$user" \in DOMAIN d.bag /\ ~Truthy(d.bag["$user"]) THEN Err("PermissionDenied", "")
  ELSE IF ~d.invoked THEN validate(d.bag, Props(d)).error
  ELSE IF d.result.kind = "throw" THEN d.result.v
  ELSE Undefined

\* the status the mapping gives an error of that name
MappedStatus(name) ==
  CASE name = "AlreadyExists" -> 409
    [] name = "InvalidData" -> 400
    [] name = "NotFound" -> 404
    [] name = "NotSupported" -> 501
    [] name = "PermissionDenied" -> 401
    [] OTHER -> 500

\* C4: a call that raised a failure in the user check, in validation or in its
\* handler ends with a response whose status is the one the mapping gives the
\* failure: 409, 400, 404, 501, 401, and 500 for every other failure
C4_ErrorStatus ==
  \A s \in Ended :
    Raised(disp[s]) # Undefined =>
      /\ disp[s].out.kind = "response"
      /\ disp[s].out.v.status = MappedStatus(Raised(disp[s]).name)

\* C4 happens: a handler threw BadResource, which the mapping does not name,
\* and the call ended with 500
C4_Witness ==
  \E s \in Ended :
    /\ disp[s].invoked /\ disp[s].result.kind = "throw"
    /\ disp[s].result.v.name = "BadResource"
    /\ Answered(disp[s], 500)

\* C5: when the route declares $user and the resolver gave a falsy value, the
\* call ends with PermissionDenied (401) and the handler is never invoked,
\* whatever else the request lacks
C5_UserCheckFirst ==
  \A s \in Started :
    LET d == disp[s]
    IN (/\ d.route # NoRoute /\ HasProperty(Props(d), "$user")
        /\ "$user" \in DOMAIN d.bag /\ ~Truthy(d.bag["$user"]))
       => /\ d.pc = "done"
          /\ Failed(d, 401, "PermissionDenied")
          /\ ~d.invoked

\* C5 happens: /docs/secret without a user and without its required key ended
\* with 401
C5_Witness ==
  \E s \in Ended :
    /\ disp[s].route.handler = "get_secret"
    /\ "$user" \in DOMAIN disp[s].bag /\ ~Truthy(disp[s].bag["$user"])
    /\ Lookup(disp[s].bag, "key") = Undefined
    /\ Answered(disp[s], 401)

\* a decimal numeral: an optional minus sign and one or more digits
IsNumeral(text) ==
  LET digits == IF StartsWith(text, "-") THEN From(text, 2) ELSE text
  IN digits # "" /\ \A i \in 1..Len(digits) : IsDigit(CharAt(digits, i))

NumeralValue(text) ==
  IF StartsWith(text, "-") THEN -DigitsValue(From(text, 2)) ELSE DigitsValue(text)

\* C6: for a parameter whose default is a number and a request that supplies a
\* text for it, a call that reached its handler passed the numeral's number,
\* and a text that is not a numeral ends the call with InvalidData (400)
\* without the handler
C6_NumericCoercion ==
  \A s \in Ended :
    LET d == disp[s]
    IN d.route # NoRoute /\ d.checked =>
         \A k \in 1..Len(Props(d)) :
           (TypeOf(Props(d)[k].default) = "number" /\ Supplied(d, k).t = "string") =>
             IF IsNumeral(Supplied(d, k).v)
             THEN d.invoked => d.args[k] = Num(NumeralValue(Supplied(d, k).v))
             ELSE Failed(d, 400, "InvalidData") /\ ~d.invoked

\* the text is wrapped in one layer of double quotes
IsQuoted(text) ==
  Len(text) >= 2 /\ CharAt(text, 1) = "\"" /\ CharAt(text, Len(text)) = "\""

\* C7: for a parameter whose default is a string and a request that supplies
\* for it a text wrapped in quotes, the handler gets the text without that one
\* layer of quotes
C7_QuotesStripped ==
  \A s \in Started :
    LET d == disp[s]
    IN d.route # NoRoute /\ d.invoked =>
         \A k \in 1..Len(Props(d)) :
           (/\ TypeOf(Props(d)[k].default) = "string"
            /\ Supplied(d, k).t = "string" /\ IsQuoted(Supplied(d, k).v))
           => d.args[k] = Str(SubSeq(Supplied(d, k).v, 2, Len(Supplied(d, k).v) - 1))

\* the route of the call has a required property, other than the reserved
\* ones the dispatcher fills in, that the request holds no value for
LacksRequired(d) ==
  \E k \in 1..Len(Props(d)) :
    /\ ~StartsWith(Props(d)[k].name, "$")
    /\ ~Props(d)[k].hasDefault
    /\ Supplied(d, k) = Undefined

\* C8, as stated: a call whose route has a required property that the request
\* supplies no value for ends with InvalidData (400) without the handler
C8_RequiredMissing ==
  \A s \in Ended :
    disp[s].route # NoRoute /\ LacksRequired(disp[s]) =>
      Failed(disp[s], 400, "InvalidData") /\ ~disp[s].invoked

\* C8, amended: the same of the calls that reached validation, that is whose
\* body was read and whose user check passed
C8_RequiredMissingWhenValidated ==
  \A s \in Started :
    LET d == disp[s]
    IN (/\ d.route # NoRoute /\ d.checked
        /\ ~("$user" \in DOMAIN d.bag /\ ~Truthy(d.bag["$user"]))
        /\ LacksRequired(d))
       => d.pc = "done" /\ Failed(d, 400, "InvalidData") /\ ~d.invoked

\* C8 happens: /docs/secret with a user and without its required key ended
\* with 400
C8_Witness ==
  \E s \in Ended :
    /\ disp[s].route.handler = "get_secret"
    /\ Truthy(disp[s].bag["$user"])
    /\ Lookup(disp[s].bag, "key") = Undefined
    /\ Failed(disp[s], 400, "InvalidData")

\* the id a path /users/<numeral> names, -1 for any other path
IdOfPath(path) ==
  IF StartsWith(path, "/users/") /\ IsNumeral(From(path, 8)) THEN NumeralValue(From(path, 8))
  ELSE -1

\* the records of that id in a database
RecordsOf(db, id) == {i \in 1..Len(db) : Field(db[i], "id") = Num(id)}

\* C9: on the users fixture, a routed GET /users/<id> ends with 200 and the
\* record when the database holds the id and with NotFound (404) when not; a
\* routed DELETE /users/<id> ends with 200 and the record gone, the others
\* kept, when the database holds the id, and with NotFound (404) when not, as
\* after a first DELETE
C9_UsersEndToEnd ==
  \A s \in Ended :
    LET d == disp[s]
        id == IdOfPath(d.req.path)
    IN (d.ctrl = "users" /\ d.route # NoRoute /\ id >= 0) =>
         /\ d.req.method = "GET" =>
              IF RecordsOf(d.before, id) # {}
              THEN /\ Answered(d, 200)
                   /\ \E i \in RecordsOf(d.before, id) :
                        d.out.v.body = [t |-> "json", v |-> d.before[i]]
                   /\ users = d.before
              ELSE Failed(d, 404, "NotFound")
         /\ d.req.method = "DELETE" =>
              IF RecordsOf(d.before, id) # {}
              THEN /\ Answered(d, 200)
                   /\ RecordsOf(users, id) = {}
                   /\ Len(users) = Len(d.before) - 1
                   /\ \A i \in 1..Len(d.before) :
                        i \notin RecordsOf(d.before, id) =>
                          \E j \in 1..Len(users) : users[j] = d.before[i]
              ELSE Failed(d, 404, "NotFound") /\ users = d.before

\* C9 happens: a DELETE /users/2 found the record gone, a first DELETE having
\* removed it, and ended with 404
C9_Witness ==
  \E s \in Ended :
    /\ disp[s].req.method = "DELETE" /\ disp[s].req.path = "/users/2"
    /\ disp[s].invoked
    /\ RecordsOf(disp[s].before, 2) = {}
    /\ Answered(disp[s], 404)

\* C10: when the handler's value is a Response, the call ends with that very
\* Response, its status, content type and body as the handler made them
C10_ResponsePassThrough ==
  \A s \in Ended :
    (disp[s].invoked /\ disp[s].result.kind = "return" /\ disp[s].result.v.t = "Response")
    => disp[s].out = Responds(disp[s].result.v)

\* C10 happens: /docs/report.pdf, a path with an extension, ended with the
\* Response its handler made, not with the content type of pdf
C10_Witness ==
  \E s \in Ended :
    /\ disp[s].extension = Str("pdf")
    /\ disp[s].result.v.t = "Response"
    /\ disp[s].out.v.origin = "handler"
    /\ disp[s].out.v.ct = "application/x-report"

\* the file extension of a path: what follows the last dot of its final
\* segment, "" when that segment has no dot
FileExtension(path) ==
  LET segments == Split(path, "/")
      parts == Split(segments[Len(segments)], ".")
  IN IF Len(parts) > 1 THEN parts[Len(parts)] ELSE ""

\* C11: a call whose handler gave a value that is no Response ends with
\* status 200 and the content type of the path's file extension when the table
\* holds it; without an extension, html or plain text for a string by the tag
\* pattern, octet-stream for a binary body, and else JSON with the value
\* serialized
C11_ContentTypePriority ==
  \A s \in Ended :
    LET d == disp[s]
        ext == FileExtension(d.req.path)
        body == d.result.v
    IN (d.invoked /\ d.result.kind = "return" /\ body.t # "Response") =>
         /\ Answered(d, 200)
         /\ IF ext # "" THEN ContentType(ext) # "" => d.out.v.ct = ContentType(ext)
            ELSE IF body.t = "string"
              THEN d.out.v.ct = ContentType(IF isHTML(body.v) THEN "html" ELSE "text")
            ELSE IF body.t = "ArrayBuffer" THEN d.out.v.ct = ContentType("bin")
            ELSE d.out.v.ct = ContentType("json") /\ d.out.v.body = JsonText(body)

\* the error responses of the dispatcher: the 405 of the lookup and the
\* responses of the catch clause
IsErrorResponse(d) ==
  /\ d.out.kind = "response" /\ d.out.v.origin = "grout"
  /\ d.out.v.status >= 400

\* C12, as stated: every error response carries the JSON content type and a
\* JSON body; that of a failure holds the failure's name, that of a 405 its
\* message
C12_ErrorBodiesNamed ==
  \A s \in Ended :
    LET d == disp[s]
    IN IsErrorResponse(d) =>
         /\ d.out.v.ct = ContentType("json")
         /\ d.out.v.body.t = "json"
         /\ IF Raised(d) = Undefined THEN "message" \in DOMAIN d.out.v.body.v.v
            ELSE Field(d.out.v.body.v, "name") = Str(Raised(d).name)

\* C12, amended: every error response carries the JSON content type and a
\* JSON object, whatever the extension of the path; the object holds the name
\* of the failure for the five conditions the status table names, and the
\* message for a 405
C12_ErrorBodies ==
  \A s \in Ended :
    LET d == disp[s]
    IN IsErrorResponse(d) =>
         /\ d.out.v.ct = ContentType("json")
         /\ d.out.v.body.t = "json" /\ d.out.v.body.v.t = "object"
         /\ IF Raised(d) = Undefined THEN "message" \in DOMAIN d.out.v.body.v.v
            ELSE MappedStatus(Raised(d).name) # 500 =>
                   Field(d.out.v.body.v, "name") = Str(Raised(d).name)

\* C12 happens: /users/9/avatar.png, a path with the extension png, ended
\* with the 404 of NotFound under the JSON content type
C12_Witness ==
  \E s \in Ended :
    /\ disp[s].extension = Str("png")
    /\ Failed(disp[s], 404, "NotFound")
    /\ disp[s].out.v.ct = ContentType("json")

\* the rule table of typeOf; the members of a record are put in the order of
\* their keys (byKey) or in the order of their texts "key:type"
RECURSIVE TypeRule(_, _, _)
TypeRule(value, fullTypes, byKey) ==
  CASE value.t = "undefined" -> "unknown"
    [] value.t = "null" -> "null"
    [] value.t \in {"string", "number", "boolean", "symbol"} -> value.t
    [] value.t = "instance" -> value.ctor
    [] value.t = "array" ->
         LET types == {TypeRule(value.v[i], fullTypes, byKey) : i \in DOMAIN value.v}
         IN IF types = {} THEN "unknown[]"
            ELSE IF Cardinality(types) = 1 THEN (CHOOSE T \in types : TRUE) \o "[]"
            ELSE IF ~fullTypes THEN "unknown[]"
            ELSE "(" \o Join(SortStrings(types), "|") \o ")[]"
    [] value.t = "object" ->
         LET keys == SortStrings(DOMAIN value.v)
             member(k) == k \o ":" \o TypeRule(value.v[k], fullTypes, byKey)
         IN IF ~fullTypes THEN "object"
            ELSE IF byKey THEN "{" \o Join([i \in DOMAIN keys |-> member(keys[i])], ",") \o "}"
            ELSE "{" \o Join(SortStrings({member(k) : k \in DOMAIN value.v}), ",") \o "}"

\* C13, as stated: typeOf gives what the rule table gives, the members of a
\* record in the order of their keys
C13_TypeOfKeysSorted ==
  (call.fn = "typeOf" /\ call.done) =>
    call.result = TypeRule(call.value, call.useFullTypes, TRUE)

\* C13, amended: typeOf gives what the rule table gives, the members of a
\* record in the order of their texts "key:type"
C13_TypeOfRuleTable ==
  (call.fn = "typeOf" /\ call.done) =>
    call.result = TypeRule(call.value, call.useFullTypes, FALSE)

\* C13 happens: typeOf(["a", 1]) gave "(number|string)[]", the types sorted
\* and not in the order of the elements
C13_Witness ==
  /\ call.fn = "typeOf" /\ call.done
  /\ call.value = Arr(<<Str("a"), Num(1)>>) /\ call.useFullTypes
  /\ call.result = "(number|string)[]"

\* the member's name starts with the name of an HTTP method, in any case
NamesMethod(name) ==
  ToUpperCase(Head(Split(name, "_"))) \in
    {"DELETE", "GET", "HEAD", "OPTIONS", "PATCH", "POST", "PUT"}

\* C14: every route of every extracted route list, and every handler a call
\* of handle invoked, is a member other than the constructor whose first name
\* token is an HTTP method
C14_OnlyMethodMembersRouted ==
  /\ \A c \in DOMAIN cache :
       \A i \in 1..Len(cache[c].routes) :
         /\ cache[c].routes[i].handler # "constructor"
         /\ NamesMethod(cache[c].routes[i].handler)
  /\ \A s \in Started :
       disp[s].invoked =>
         disp[s].route.handler # "constructor" /\ NamesMethod(disp[s].route.handler)

\* C14 happens: GET /users/find?name=root, which names the member find of the
\* users controller, was looked up in the extracted routes and went to
\* get_$id, not to find
C14_Witness ==
  \E s \in Ended :
    /\ disp[s].req.path = "/users/find"
    /\ cache["users"].set
    /\ disp[s].route.handler = "get_$id"
    /\ ~disp[s].invoked

\* the documented grammar on what follows the method in a member name: "_"
\* gives "/", "$$" gives ".", "$" gives ":"
RECURSIVE Grammar(_)
Grammar(s) ==
  IF s = "" THEN ""
  ELSE IF StartsWith(s, "$$") THEN "." \o Grammar(From(s, 3))
  ELSE IF StartsWith(s, "$") THEN ":" \o Grammar(From(s, 2))
  ELSE IF StartsWith(s, "_") THEN "/" \o Grammar(From(s, 2))
  ELSE CharAt(s, 1) \o Grammar(From(s, 2))

\* the method word of a member name: its letters up to the first "_" or "$"
RECURSIVE MethodWord(_)
MethodWord(name) ==
  IF name = "" \/ CharAt(name, 1) \in {"_", "$"} THEN ""
  ELSE CharAt(name, 1) \o MethodWord(From(name, 2))

\* C15: the route of a member named by the documented grammar has the method
\* of the name's first word and the pathname the grammar gives the rest of
\* the name, under the base
C15_NamingGrammar ==
  \A c \in DOMAIN cache :
    \A i \in 1..Len(cache[c].routes) :
      LET r == cache[c].routes[i]
      IN /\ r.method = ToUpperCase(MethodWord(r.handler))
         /\ r.pathname =
              controllers[c].base \o Grammar(From(r.handler, Len(MethodWord(r.handler)) + 1))

\* the routes of a controller rooted at the base it declares
RootedAtDeclaredBase(c) ==
  extractRoutesNoCache(controllers[c], controllers[c].base, NoEntry,
                       Strategy("source", "")).routes

\* C16: when handle is given no prefix and the controller declares a base, a
\* request that matches a route rooted at the declared base goes to that route
C16_DeclaredBaseRoots ==
  \A s \in Ended :
    LET d == disp[s]
        m == matchRoute(RootedAtDeclaredBase(d.ctrl), d.req.method, d.req.path)
    IN (controllers[d.ctrl].base # "" /\ served[d.ctrl].prefix = "" /\ m # 0) =>
         d.route.handler = RootedAtDeclaredBase(d.ctrl)[m].handler

\* the places of the Map's keys that prefix the request path after the global
\* prefix, and among them the place of the longest key
PrefixingKeys(path) ==
  {i \in 1..Len(served.map) :
     StartsWith(From(path, Len(served.prefix) + 1), served.map[i].key)}

LongestKey(path) ==
  CHOOSE i \in PrefixingKeys(path) :
    \A j \in PrefixingKeys(path) : Len(served.map[j].key) <= Len(served.map[i].key)

\* C17, as stated: a request over a Map of controllers goes to the controller
\* of the longest key that prefixes its path after the global prefix, and
\* ends with undefined when the path lacks the global prefix or no key
\* prefixes it
C17_LongestKeyWins ==
  \A s \in Ended :
    LET d == disp[s]
    IN IF ~StartsWith(d.req.path, served.prefix) \/ PrefixingKeys(d.req.path) = {}
       THEN d.out = Unhandled
       ELSE d.ctrl = served.map[LongestKey(d.req.path)].ctrl

\* C18, as stated: a call that matched a route ends with a Response, that of
\* a failure with a status of the mapping; it never ends with a rejection
C18_MatchedNeverRejects ==
  \A s \in Ended :
    disp[s].route # NoRoute =>
      /\ disp[s].out.kind = "response"
      /\ disp[s].out.v.status >= 400 =>
           disp[s].out.v.status \in {400, 401, 404, 409, 500, 501}

\* C19, as stated: a route whose handler the strategy found no schema for
\* is left out of the route list, or every call that matches it ends with the
\* response 500; no call ends with a rejection
C19_MissingSchemaContained ==
  \A s \in Ended :
    /\ disp[s].out.kind # "rejected"
    /\ disp[s].route # NoRoute /\ ~disp[s].route.schema.defined =>
         disp[s].out.kind = "response" /\ disp[s].out.v.status = 500

\* the names the dispatcher fills by steps of its own
ReservedNames == {"$body", "$request", "$user"}

\* the request without the entries of its query that bear a reserved name
WithoutReserved(req) ==
  [req EXCEPT !.query = SelectSeq(@, LAMBDA entry : entry.name \notin ReservedNames)]

\* C20, as stated: an entry of the query under a reserved name changes nothing:
\* the parameters handed on are those of the request without it, and a call
\* whose route does not declare $user is never answered by the user check
C20_ReservedNamesInert ==
  \A s \in Ended :
    LET d == disp[s]
    IN d.route # NoRoute /\ d.route.schema.defined
       /\ ~HasProperty(d.route.schema.properties, "$user") =>
         /\ ~UserCheckFails(d.bag)
         /\ d.checked =>
              validate(d.bag, d.route.schema.properties)
                = validate(RequestParameters(d.route, WithoutReserved(d.req)),
                           d.route.schema.properties)

\* C21, as stated: no call of extractRoutes throws, whatever the controller;
\* it always returns a route list, so no call of handle ends with a rejection
\* that extractRoutes raised
C21_ExtractRoutesNeverThrows ==
  /\ \A c \in DOMAIN returned : ~returned[c].threw
  /\ \A s \in Ended : disp[s].route = NoRoute => disp[s].out.kind # "rejected"

\* the parameters the class declares for the handler of a call, in the order
\* of the declaration
Declared(d) ==
  LET names == controllers[d.ctrl].names
  IN names[CHOOSE i \in 1..Len(names) : names[i].name = d.route.handler].decl.params

\* C22: the handler is called with one argument per declared parameter, in
\* the order of the declaration, the k-th being the validated value of the
\* k-th parameter; while the handler's result is pending the call has no
\* outcome, and the response of a value returned is built from that value
C22_PositionalArguments ==
  \A s \in Started :
    LET d == disp[s]
    IN d.invoked =>
         /\ Len(d.args) = Len(Declared(d))
         /\ \A k \in 1..Len(d.args) :
              /\ Props(d)[k].name = Declared(d)[k].name
              /\ d.args[k] = ValidateProperty(d.bag, Props(d)[k]).v
         /\ d.result.kind = "pending" => d.pc = "call" /\ d.out = NoOutcome
         /\ d.pc = "done" /\ d.result.kind = "return" =>
              d.out = Responds(BuildResponse(d.result.v, d.extension))

\* C22 happens: get_secret($user, key) was called with the resolved user first
\* and the key of the query second, and answered with the key
C22_Witness ==
  \E s \in Ended :
    /\ disp[s].route.handler = "get_secret"
    /\ disp[s].invoked
    /\ disp[s].args = <<Str("root"), Str("k")>>
    /\ disp[s].out.kind = "response" /\ disp[s].out.v.status = 200
    /\ disp[s].out.v.body = Str("k")

\* one step of a call of handle, from d to e, keeps the order of the steps:
\* lookup and extraction, then the body if the schema declares $body, then the
\* user if it declares $user, then validation and the call, then the response;
\* outcomes tells how a call may end
StepInOrder(d, e, outcomes) ==
  \/ e = d
  \/ /\ d.pc \in {"idle", "done"} => e.pc \in {"body", "user", "call", "done"}
     /\ d.pc = "body" => e.pc \in {"user", "call", "done"} /\ e.req = d.req
     /\ d.pc = "user" => e.pc \in {"call", "done"} /\ e.req = d.req
     /\ d.pc = "call" => e.pc = "done" /\ e.req = d.req
     /\ e.pc = "body" => HasProperty(e.route.schema.properties, "$body")
     /\ e.pc = "user" => HasProperty(e.route.schema.properties, "$user")
     /\ e.pc \in {"body", "user", "call"} => e.route # NoRoute
     /\ e.pc \in {"body", "user"} => ~e.checked /\ ~e.invoked
     /\ d.pc # "call" /\ e.checked =>
          /\ HasProperty(e.route.schema.properties, "$body") => d.pc \in {"body", "user"}
          /\ HasProperty(e.route.schema.properties, "$user") => d.pc = "user"
     /\ e.invoked =>
          /\ e.checked /\ ~UserCheckFails(e.bag)
          /\ validate(e.bag, e.route.schema.properties).ok
     /\ d.pc = "call" => d.invoked /\ e.invoked /\ e.args = d.args
     /\ e.pc = "call" => d.pc # "call" /\ e.invoked
     /\ IF e.pc = "done" THEN e.out.kind \in outcomes ELSE e.out = NoOutcome

\* C23, as stated: the steps of every call of handle occur in that order, the
\* handler is called at most once and only after the validation succeeded, and
\* the call ends with a response or with undefined
C23_StepsInOrder ==
  [][\A s \in DOMAIN disp : StepInOrder(disp[s], disp'[s], {"response", "unhandled"})]_vars

\* a name token as a path segment: a token whose first character is "$" is
\* the capture named by the rest of it
Segment(token) == IF StartsWith(token, "$") THEN ":" \o From(token, 2) ELSE token

\* the pathname the tokens after the method give under the base
TokensPathname(base, name) ==
  LET tokens == Tail(Split(name, "_"))
  IN base \o (IF Len(tokens) > 0 THEN "/" ELSE "")
          \o Join([k \in 1..Len(tokens) |-> Segment(tokens[k])], "/")

\* C24, as stated: the pathname of the route of a member without extension is
\* the base, "/" and its tokens joined by "/", every token that starts with
\* "$" being a named capture
C24_EveryMarkedTokenCaptured ==
  \A c \in DOMAIN cache :
    \A i \in 1..Len(cache[c].routes) :
      LET r == cache[c].routes[i]
      IN IndexOf(r.handler, "$$") = 0 =>
           r.pathname = TokensPathname(controllers[c].base, r.handler)

\* the first value the query of a request holds under a name
FirstInQuery(req, name) ==
  req.query[CHOOSE i \in 1..Len(req.query) :
              /\ req.query[i].name = name
              /\ \A j \in 1..(i - 1) : req.query[j].name # name].value

\* the captures of the route of a call on the path of its request
Captures(d) == PatternGroups(d.route.pathname, d.req.path)

\* C25: the parameters of a call hold every capture of the path under its
\* name, and every other name of the query under the first value the query
\* gives it; a handler called with a captured parameter gets the value the
\* capture validates to, whatever the query holds under that name
C25_CapturesBeforeQuery ==
  \A s \in Started :
    LET d == disp[s]
    IN d.route # NoRoute /\ d.route.schema.defined =>
         /\ \A g \in DOMAIN Captures(d) : d.bag[g] = Captures(d)[g]
         /\ \A i \in 1..Len(d.req.query) :
              LET name == d.req.query[i].name
              IN name \notin DOMAIN Captures(d) \cup {"0", "$body", "$request", "$user"} =>
                   d.bag[name] = Str(FirstInQuery(d.req, name))
         /\ d.invoked =>
              \A k \in 1..Len(Props(d)) :
                Props(d)[k].name \in DOMAIN Captures(d) =>
                  d.args[k] = ValidateProperty(Captures(d), Props(d)[k]).v

\* C25 happens: GET /users/1?id=2 was answered with the user of id 1
C25_Witness ==
  \E s \in Ended :
    /\ disp[s].req.path = "/users/1"
    /\ disp[s].req.query = <<Pair("id", "2")>>
    /\ disp[s].args = <<Num(1)>>
    /\ disp[s].out.kind = "response" /\ disp[s].out.v.status = 200
    /\ disp[s].out.v.body = JsonText(InitialUsers[2])

\* the places of the properties of a call that are given as text and expect
\* something else than a string or the unknown
TextForTyped(d) ==
  {k \in 1..Len(Props(d)) :
     /\ ~StartsWith(Props(d)[k].name, "$")
     /\ Props(d)[k].type \notin {"string", "unknown"}
     /\ Supplied(d, k).t = "string"}

\* C26, as stated: a text given for a parameter whose type is neither string
\* nor unknown is parsed, and the handler gets the parsed value; if one does
\* not parse, the handler is not called and the call is answered with the 400
\* of InvalidData
C26_TextParsedByType ==
  \A s \in Ended :
    LET d == disp[s]
    IN d.checked /\ ~UserCheckFails(d.bag) =>
         /\ d.invoked =>
              \A k \in TextForTyped(d) :
                /\ JsonParse(Supplied(d, k).v).ok
                /\ d.args[k] = JsonParse(Supplied(d, k).v).v
         /\ (\E k \in TextForTyped(d) : ~JsonParse(Supplied(d, k).v).ok) =>
              /\ ~d.invoked
              /\ Raised(d).name = "InvalidData"
              /\ Answered(d, 400)

\* the calls whose body has been read and decoded
BodyDecoded(d) ==
  /\ d.route # NoRoute /\ d.route.schema.defined
  /\ HasProperty(Props(d), "$body")
  /\ d.pc \in {"user", "call"} \/ (d.pc = "done" /\ d.checked)

\* whether the request announces JSON, or a form
IsJsonType(ct) == StartsWith(ct, "application/json")
IsFormType(ct) == StartsWith(ct, "application/x-www-form-urlencoded")

\* whether the parameters of a call hold no $body but one of its query
BodyNotRead(d) ==
  "$body" \in DOMAIN d.bag =>
    /\ \E i \in 1..Len(d.req.query) : d.req.query[i].name = "$body"
    /\ d.bag["$body"] = Str(FirstInQuery(d.req, "$body"))

\* C27, as stated: the body is read only if the schema declares $body; under
\* a JSON content type $body is the parsed value, under the form content type
\* a flat mapping of texts, under any other content type or none the raw text
C27_BodyByContentType ==
  \A s \in Started :
    LET d == disp[s]
        ct == d.req.contentType
    IN /\ d.pc = "body" => HasProperty(Props(d), "$body")
       /\ d.route # NoRoute /\ d.route.schema.defined /\ ~HasProperty(Props(d), "$body") =>
            BodyNotRead(d)
       /\ BodyDecoded(d) =>
            IF IsJsonType(ct) THEN d.bag["$body"] = JsonParse(d.req.body).v
            ELSE IF IsFormType(ct)
              THEN /\ d.bag["$body"] = FormData(d.req.body)
                   /\ \A k \in DOMAIN d.bag["$body"].v : d.bag["$body"].v[k].t = "string"
            ELSE d.bag["$body"] = Str(d.req.body)

\* C27, amended: as stated, except that a request without content type is
\* read as JSON; a body that is not JSON, read as JSON, ends the call with the
\* rejection SyntaxError before anything is checked
C27_BodyByContentTypeOrJson ==
  \A s \in Started :
    LET d == disp[s]
        ct == d.req.contentType
    IN /\ d.pc = "body" => HasProperty(Props(d), "$body")
       /\ d.route # NoRoute /\ d.route.schema.defined /\ ~HasProperty(Props(d), "$body") =>
            BodyNotRead(d)
       /\ BodyDecoded(d) =>
            IF ct = "" \/ IsJsonType(ct)
              THEN JsonParse(d.req.body).ok /\ d.bag["$body"] = JsonParse(d.req.body).v
            ELSE IF IsFormType(ct)
              THEN /\ d.bag["$body"] = FormData(d.req.body)
                   /\ \A k \in DOMAIN d.bag["$body"].v : d.bag["$body"].v[k].t = "string"
            ELSE d.bag["$body"] = Str(d.req.body)
       /\ d.route # NoRoute /\ d.route.schema.defined /\ HasProperty(Props(d), "$body")
          /\ d.pc = "done" /\ ~d.checked =>
            /\ ct = "" \/ IsJsonType(ct)
            /\ ~JsonParse(d.req.body).ok
            /\ d.out = Rejects(Err("SyntaxError", ""))

\* C27 happens: a PATCH of user 1 with a form body was decoded to a mapping of
\* texts, handed to patch_$id and assigned to the user, whose admin is now the
\* text false
C27_Witness ==
  \E s \in Ended :
    /\ IsFormType(disp[s].req.contentType)
    /\ disp[s].bag["$body"] = Obj([name |-> Str("John"), admin |-> Str("false")])
    /\ disp[s].args = <<Num(1), disp[s].bag["$body"]>>
    /\ Answered(disp[s], 200)
    /\ Field(users[2], "admin") = Str("false")

\* the route list one call of extractRoutes computes for a controller as the
\* application serves it, nothing being cached
ComputedAlone(c) ==
  extractRoutesNoCache(controllers[c], served[c].prefix, NoEntry,
                       Strategy(IF served[c].fileName = "" THEN "source" ELSE "ast",
                                served[c].fileName)).routes

\* C28: with calls of handle in flight at once on a controller, the cache
\* entry, once set, is the whole list one call of extractRoutes computes alone
\* and never changes, and the route of every call is a route of that list
C28_ConcurrentFirstRequestsBenign ==
  [][\A c \in DOMAIN cache :
       /\ cache[c].set => cache'[c] = cache[c]
       /\ \A alone \in {ComputedAlone(c)} :
            /\ cache'[c].set => cache'[c].routes = alone
            /\ \A s \in DOMAIN disp :
                 disp'[s].ctrl = c /\ disp'[s].route # NoRoute =>
                   \E i \in 1..Len(alone) : alone[i] = disp'[s].route]_vars

\* C28 happens: two calls on the controller are in flight at once, one
\* waiting for its handler's promise and one for the user, each with its route
C28_Witness ==
  /\ disp["a"].pc = "call" /\ disp["a"].route.handler = "get_$id_async"
  /\ disp["b"].pc = "user" /\ disp["b"].route.handler = "get_admins"
  /\ cache["shared"].set

\* the route list extractRoutes computes for a controller from the arguments
\* of one call of handle, nothing being cached
ComputedWith(c, args) ==
  extractRoutesNoCache(controllers[c], args.prefix, NoEntry,
                       Strategy(IF args.fileName = "" THEN "source" ELSE "ast",
                                args.fileName)).routes

\* C29: the first call of handle on a controller caches the list built with
\* its prefix and its strategy; no later call changes the entry, whatever its
\* prefix and fileName, and the route of every later call is one of that list
C29_CacheKeyedByControllerOnly ==
  [][\A c \in DOMAIN cache :
       /\ ~cache[c].set /\ cache'[c].set => cache'[c].routes = ComputedWith(c, served'[c])
       /\ cache[c].set =>
            /\ cache'[c] = cache[c]
            /\ \A s \in DOMAIN disp :
                 disp'[s] # disp[s] /\ disp'[s].ctrl = c /\ disp'[s].route # NoRoute =>
                   \E i \in 1..Len(cache[c].routes) : cache[c].routes[i] = disp'[s].route]_vars

\* C29 happens: a call with the prefix /v2 and a fileName was routed by the
\* list the first call built under /paths from the source text: GET /paths/7
\* went to get_$id, whose schema is the textual one
C29_Witness ==
  \E s \in Ended :
    /\ served["varied"] = [fileName |-> "paths.controller.ts", prefix |-> "/v2"]
    /\ disp[s].req.path = "/paths/7"
    /\ disp[s].route.pathname = "/paths/:id"
    /\ disp[s].route.schema.properties[1].type = "any"
    /\ Answered(disp[s], 200)

\* the value the dedicated step of handleOne gives a parameter it fills in
\* itself: the resolver's user, the decoded body, the Request
StepValue(d, name) ==
  CASE name = "$user" -> d.req.user
    [] name = "$body" -> DecodeBody(d.req).v
    [] name = "$request" -> [t |-> "Request"]

\* C30: the argument a handler is called with for a declared $user, $body or
\* $request is the value of the dedicated step, whatever the captures and the
\* query of the request say under that name
C30_ReservedFromDedicatedStep ==
  \A s \in DOMAIN disp :
    disp[s].invoked =>
      \A i \in 1..Len(disp[s].route.schema.properties) :
        \A name \in {disp[s].route.schema.properties[i].name} :
          name \in ReservedNames =>
            /\ i <= Len(disp[s].args)
            /\ disp[s].args[i] = StepValue(disp[s], name)

\* C30 happens: a handler declaring the three was called for a user John on a
\* request whose query gives each of the names a text of its own
C30_Witness ==
  \E s \in DOMAIN disp :
    /\ disp[s].invoked
    /\ disp[s].route.pathname = "/reserved/all"
    /\ FirstInQuery(disp[s].req, "$user") = "root"
    /\ FirstInQuery(disp[s].req, "$body") = "x"
    /\ disp[s].args[3] = Str("John")

====
